---- MODULE Spec2Model ----
(***************************************************************************)
(* Photo-Watermark: the watermark compositing engine                       *)
(* (src/watermark_engine.py) and its callers.                              *)
(*                                                                         *)
(* Conventions                                                             *)
(*   - a Python tuple (a, b) is the TLA+ tuple <<a, b>> (1-indexed);       *)
(*   - Python's None is the empty tuple (manual offsets) or the string     *)
(*     "None" (preset keys), so that TLC can compare it with real values;  *)
(*   - float pixel offsets are fixed-point numbers with denominator        *)
(*     PosDen, int() is truncation toward zero.                            *)
(***************************************************************************)
EXTENDS Integers, Sequences, FiniteSets, TLC

VARIABLES
    \* ---- calc_position called on its own (SpecPosition) ----
    base_size,      \* (bw, bh)
    overlay_size,   \* (ow, oh)
    margin,         \* (mx, my)
    preset_key,     \* a preset name, an unknown name, or "None"
    manual_pos_px,  \* None, or (x, y) in units of 1/PosDen pixel
    pos,            \* what calc_position returned, None before the call
    pos2,           \* calc_position applied to its own result, None before
    ppc,            \* "start" | "resolved" | "reclamped"
    \* ---- the engine called on images (Spec) ----
    files,          \* the watermark image files on disk: path -> image
    heap,           \* the live image objects: id -> image
    base_img,       \* id of the caller's base image
    base0,          \* the base image as it was handed to the engine
    call,           \* the last engine call and its arguments
    ret,            \* id of the image the call returned, 0 before any call
    composite,      \* what the call composited: watermark sizes and position
    \* ---- the image-watermark preparer on its own (SpecOpacity) ----
    wm_img,         \* the watermark image handed to compose_image_watermark
    opacity1,       \* the opacity of the first call, in 1/OpDen
    opacity2,       \* the opacity of the second call
    prepared1,      \* what the first call returned, None before it
    prepared2,      \* what the second call returned, None before it
    opc,            \* "start" | "first" | "second"
    \* ---- MainWindow.batch_export (SpecBatch) ----
    job,            \* the imported images, the files on disk, the export options
    batch,          \* the position of batch_export in its loop and what it did so far
    \* ---- load_font (SpecFont) ----
    font_disk,      \* the font files that load: ttf files, faces per ttc collection
    font_call,      \* the arguments of load_font and the font it returned
    \* ---- template_manager (SpecTemplate) ----
    template_dir,   \* TEMPLATE_DIR: file name without ".json" -> the JSON document in it
    kv,             \* the key-value store the calls so far describe: name -> last value
    tcall,          \* the last template_manager call, its arguments and what it returned
    \* ---- MainWindow preview placement (SpecPreview) ----
    preview,        \* the previewed image, the settings, the item's place and the export's
    \* ---- text watermark in the preview and in the export (SpecTextOpacity) ----
    text_view,       \* text settings, opacity, and the canvas each path rendered
    \* ---- MainWindow events (SpecGui) ----
    gui,    \* the main window: image, scale factor, watermark item, settings
    user,    \* what the user did: the last drag, the events so far
    \* ---- compose_text_watermark (SpecText) ----
    text_call,    \* the arguments of compose_text_watermark, its layout and its draw calls
    \* ---- compute_position (SpecCli) ----
    cli,    \* the arguments of compute_position of the command-line tool and its result
    \* ---- the image list of the main window (SpecList) ----
    lst    \* self.images, the rows of the list widget, current_index and the previewed file

posVars == <<base_size, overlay_size, margin, preset_key, manual_pos_px, pos, pos2, ppc>>

engineVars == <<files, heap, base_img, base0, call, ret, composite>>

opacityVars == <<wm_img, opacity1, opacity2, prepared1, prepared2, opc>>

batchVars == <<job, batch>>

fontVars == <<font_disk, font_call>>

templateVars == <<template_dir, kv, tcall>>

previewVars == <<preview>>

textViewVars == <<text_view>>

guiVars == <<gui, user>>

textCallVars == <<text_call>>

cliVars == <<cli>>

lstVars == <<lst>>

vars == <<posVars, engineVars, opacityVars, batchVars, fontVars, templateVars, previewVars, textViewVars, guiVars, textCallVars, cliVars, lstVars>>

\* the variables a specification leaves alone
OutsidePosition == <<engineVars, opacityVars, batchVars, fontVars, templateVars, previewVars, textViewVars, guiVars, textCallVars, cliVars, lstVars>>

OutsideEngine == <<posVars, opacityVars, batchVars, fontVars, templateVars, previewVars, textViewVars, guiVars, textCallVars, cliVars, lstVars>>

OutsideOpacity == <<posVars, engineVars, batchVars, fontVars, templateVars, previewVars, textViewVars, guiVars, textCallVars, cliVars, lstVars>>

OutsideBatch == <<posVars, engineVars, opacityVars, fontVars, templateVars, previewVars, textViewVars, guiVars, textCallVars, cliVars, lstVars>>

OutsideFont == <<posVars, engineVars, opacityVars, batchVars, templateVars, previewVars, textViewVars, guiVars, textCallVars, cliVars, lstVars>>

OutsideTemplate == <<posVars, engineVars, opacityVars, batchVars, fontVars, previewVars, textViewVars, guiVars, textCallVars, cliVars, lstVars>>

OutsidePreview == <<posVars, engineVars, opacityVars, batchVars, fontVars, templateVars, textViewVars, guiVars, textCallVars, cliVars, lstVars>>

OutsideTextView == <<posVars, engineVars, opacityVars, batchVars, fontVars, templateVars, previewVars, guiVars, textCallVars, cliVars, lstVars>>

OutsideGui == <<posVars, engineVars, opacityVars, batchVars, fontVars, templateVars, previewVars, textViewVars, textCallVars, cliVars, lstVars>>

OutsideTextCall == <<posVars, engineVars, opacityVars, batchVars, fontVars, templateVars, previewVars, textViewVars, guiVars, cliVars, lstVars>>

OutsideCli == <<posVars, engineVars, opacityVars, batchVars, fontVars, templateVars, previewVars, textViewVars, guiVars, textCallVars, lstVars>>

OutsideLst == <<posVars, engineVars, opacityVars, batchVars, fontVars, templateVars, previewVars, textViewVars, guiVars, textCallVars, cliVars>>

-----------------------------------------------------------------------------
(* Bounds of the model *)

MaxBase == 3        \* base image sides are 1..MaxBase
MaxOverlay == 3     \* overlay sides are 1..MaxOverlay
MaxMargin == 1      \* margins are 0 or MaxMargin
PosDen == 2         \* manual offsets are multiples of 1/PosDen pixel
MaxManual == 3      \* manual offsets run from -1 pixel to below MaxManual pixels
MaxBaseW == 3       \* base images are 1..MaxBaseW pixels wide
MaxBaseH == 2       \* base images are 1..MaxBaseH pixels high
MaxWmW == 2         \* watermark files are 1..MaxWmW pixels wide, 1 pixel high
OpDen == 4          \* opacities are multiples of 1/OpDen
ScaleDen == 2       \* watermark scales and resize percents are multiples of 1/ScaleDen

-----------------------------------------------------------------------------
(* Python built-ins *)

None == <<>>

\* the dict {}; a dict is a function from the keys it holds
EmptyDict == [k \in {} |-> 0]

NoneKey == "None"

max(a, b) == IF a >= b THEN a ELSE b

min(a, b) == IF a <= b THEN a ELSE b

\* int(n / d) for d > 0: truncation toward zero
int_div(n, d) == IF n >= 0 THEN n \div d ELSE -((-n) \div d)

clamp(v, lo, hi) == max(lo, min(hi, v))

-----------------------------------------------------------------------------
(* Geometry / position resolver *)

\* the fractions 0.0, 0.5, 1.0 of the table are kept as halves: 0, 1, 2
PRESET_POSITIONS ==
    [top_left      |-> <<0, 0>>,
     top_center    |-> <<1, 0>>,
     top_right     |-> <<2, 0>>,
     center_left   |-> <<0, 1>>,
     center        |-> <<1, 1>>,
     center_right  |-> <<2, 1>>,
     bottom_left   |-> <<0, 2>>,
     bottom_center |-> <<1, 2>>,
     bottom_right  |-> <<2, 2>>]

PresetNames == DOMAIN PRESET_POSITIONS

\* candidate with the far edge computed without the margin
candidate_no_margin(frac, b, o, m) ==
    CASE frac = 0 -> m
      [] frac = 1 -> int_div(b - o, 2)
      [] frac = 2 -> b - o
      [] OTHER    -> int_div(b - o, 2)

\* candidate with floor division (b - o) // 2 in place of int((b - o) / 2)
candidate_floor(frac, b, o, m) ==
    CASE frac = 0 -> m
      [] frac = 1 -> (b - o) \div 2
      [] frac = 2 -> b - o - m
      [] OTHER    -> (b - o) \div 2

\* x_candidates / y_candidates .get(frac, centre)
candidate(frac, b, o, m) ==
    CASE frac = 0 -> m
      [] frac = 1 -> int_div(b - o, 2)
      [] frac = 2 -> b - o - m
      [] OTHER    -> int_div(b - o, 2)

\* manual_axis without the clamp
manual_axis_unclamped(p, b, o, m) == int_div(p, PosDen)

\* manual_axis taking the offset as the overlay's centre
manual_axis_centered(p, b, o, m) ==
    int_div(clamp(p - int_div(o * PosDen, 2), m * PosDen, max(0, b - o - m) * PosDen), PosDen)

\* the manual branch, one axis: int(clamp(p, m, max(0, b - o - m)))
manual_axis(p, b, o, m) ==
    int_div(clamp(p, m * PosDen, max(0, b - o - m) * PosDen), PosDen)

\* calc_position looking at the preset before the manual offset
calc_position_preset_first(bs, os, key, manual, mg) ==
    LET bw == bs[1]
        bh == bs[2]
        ow == os[1]
        oh == os[2]
        mx == mg[1]
        my == mg[2]
    IN  IF key \in PresetNames
        THEN <<candidate(PRESET_POSITIONS[key][1], bw, ow, mx),
               candidate(PRESET_POSITIONS[key][2], bh, oh, my)>>
        ELSE IF manual # None
        THEN <<manual_axis(manual[1], bw, ow, mx), manual_axis(manual[2], bh, oh, my)>>
        ELSE <<int_div(bw - ow, 2), int_div(bh - oh, 2)>>

calc_position(bs, os, key, manual, mg) ==
    LET bw == bs[1]
        bh == bs[2]
        ow == os[1]
        oh == os[2]
        mx == mg[1]
        my == mg[2]
    IN  IF manual # None
        THEN <<manual_axis(manual[1], bw, ow, mx), manual_axis(manual[2], bh, oh, my)>>
        ELSE IF key \in PresetNames
        THEN <<candidate(PRESET_POSITIONS[key][1], bw, ow, mx),
               candidate(PRESET_POSITIONS[key][2], bh, oh, my)>>
        ELSE <<int_div(bw - ow, 2), int_div(bh - oh, 2)>>

-----------------------------------------------------------------------------
(* Images (PIL.Image)                                                      *)
(* An image is [mode, size, px]: mode "RGB" | "RGBA", size (w, h) and      *)
(* px: (x, y) -> (r, g, b) or (r, g, b, a), channels in 0..255.            *)

Coords(size) == (0 .. size[1] - 1) \X (0 .. size[2] - 1)

Transparent == <<0, 0, 0, 0>>

abs(n) == IF n >= 0 THEN n ELSE 0 - n

\* Image.convert(mode): RGB gains alpha 255, RGBA loses its alpha
convert(img, mode) ==
    IF mode = img.mode THEN img
    ELSE IF mode = "RGBA"
    THEN [mode |-> "RGBA", size |-> img.size,
          px |-> [p \in Coords(img.size) |->
                    <<img.px[p][1], img.px[p][2], img.px[p][3], 255>>]]
    ELSE [mode |-> "RGB", size |-> img.size,
          px |-> [p \in Coords(img.size) |->
                    <<img.px[p][1], img.px[p][2], img.px[p][3]>>]]

\* Image.resize(size, LANCZOS): the same pixels when the size is unchanged;
\* otherwise size is exact and each pixel is sampled from the source pixel
\* under it (the filter's weights are not modelled)
resize(img, new_size) ==
    IF new_size = img.size THEN img
    ELSE [mode |-> img.mode, size |-> new_size,
          px |-> [p \in Coords(new_size) |->
                    img.px[<<(p[1] * img.size[1]) \div new_size[1],
                             (p[2] * img.size[2]) \div new_size[2]>>]]]

\* Image.rotate(angle, BICUBIC, expand=True) for the angles that are whole
\* quarter turns (counter-clockwise), which PIL performs as transpositions
rotate(img, angle) ==
    LET w == img.size[1]
        h == img.size[2]
        a == angle % 360
    IN  CASE a = 0   -> img
          [] a = 90  -> [mode |-> img.mode, size |-> <<h, w>>,
                         px |-> [p \in Coords(<<h, w>>) |-> img.px[<<w - 1 - p[2], p[1]>>]]]
          [] a = 180 -> [mode |-> img.mode, size |-> <<w, h>>,
                         px |-> [p \in Coords(<<w, h>>) |-> img.px[<<w - 1 - p[1], h - 1 - p[2]>>]]]
          [] a = 270 -> [mode |-> img.mode, size |-> <<h, w>>,
                         px |-> [p \in Coords(<<h, w>>) |-> img.px[<<p[2], h - 1 - p[1]>>]]]

\* (a + (a >> 8)) >> 8, PIL's rounding division by 255
SHIFTFORDIV255(a) == ((a \div 256) + a) \div 256

\* one colour channel of PIL's alpha_composite, 7 bits of extra precision
over_channel(s, d, coef1, coef2) ==
    SHIFTFORDIV255(s * coef1 + d * coef2 + 128 * 128) \div 128

\* PIL's alpha_composite of one RGBA pixel: src over dst
Over(src, dst) ==
    IF src[4] = 0 THEN dst
    ELSE LET blend == dst[4] * (255 - src[4])
             outa255 == src[4] * 255 + blend
             coef1 == (src[4] * 255 * 255 * 128) \div outa255
             coef2 == 255 * 128 - coef1
         IN  <<over_channel(src[1], dst[1], coef1, coef2),
               over_channel(src[2], dst[2], coef1, coef2),
               over_channel(src[3], dst[3], coef1, coef2),
               SHIFTFORDIV255(outa255 + 128)>>

\* Image.alpha_composite(im, dest) on base: the box dest .. dest + im.size is
\* cropped from base, composited with im and pasted back; the part of the box
\* outside base is dropped by the paste
alpha_composite(base, overlay, dest) ==
    [base EXCEPT !.px =
        [p \in Coords(base.size) |->
            LET q == <<p[1] - dest[1], p[2] - dest[2]>>
            IN  IF q \in Coords(overlay.size)
                THEN Over(overlay.px[q], base.px[p])
                ELSE base.px[p]]]

\* Image.putalpha(alpha) with alpha given per pixel
putalpha(img, alpha) ==
    [img EXCEPT !.px =
        [p \in Coords(img.size) |-> <<img.px[p][1], img.px[p][2], img.px[p][3], alpha[p]>>]]

-----------------------------------------------------------------------------
(* Objects: the heap maps the id of each live image object to its value *)

\* F applied to the value of x, x evaluated once: x is a local variable of the code
then(x, F(_)) == CHOOSE r \in {F(v) : v \in {x}} : TRUE

NewId(h) == CHOOSE i \in 1 .. (Cardinality(DOMAIN h) + 1) : i \notin DOMAIN h

\* a new object holding v
alloc(h, v) == [heap |-> h @@ (NewId(h) :> v), id |-> NewId(h)]

\* the objects still referenced
live(h, ids) == [i \in (ids \cap DOMAIN h) |-> h[i]]

-----------------------------------------------------------------------------
(* Image-watermark preparer *)

\* the table scaling by the transparency 1 - factor
enhance_lut_transparency(i, num) == int_div(clamp(i * (OpDen - num), 0, 255 * OpDen), OpDen)

\* lut[i] = int(clamp(i * factor, 0, 255)), factor = num / OpDen
enhance_lut(i, num) == int_div(clamp(i * num, 0, 255 * OpDen), OpDen)

\* ImageEnhanceBrightness(alpha).enhance(factor): alpha.point(lut)
enhance(img, num) == [p \in Coords(img.size) |-> enhance_lut(img.px[p][4], num)]

\* max(0.01, scale) as a fraction <<numerator, denominator>>, scale = num / ScaleDen
min_scale(num) == IF 100 * num < ScaleDen THEN <<1, 100>> ELSE <<num, ScaleDen>>

\* (max(1, int(w * scale)), max(1, int(h * scale)))
scaled_size(size, scale) ==
    <<max(1, int_div(size[1] * scale[1], scale[2])),
      max(1, int_div(size[2] * scale[1], scale[2]))>>

\* compose_image_watermark(wm_img, scale, opacity): the resized copy, its alpha
\* scaled when opacity < 1.0
compose_image_watermark(img, scale, opacity) ==
    LET wm == resize(img, scaled_size(img.size, min_scale(scale)))
    IN  IF opacity < OpDen THEN putalpha(wm, enhance(wm, opacity)) ELSE wm

-----------------------------------------------------------------------------
(* Text renderer *)

Sample == <<"S", "a", "m", "p", "l", "e">>

\* not text or not text.strip()
is_blank(text) == \A i \in 1 .. Len(text) : text[i] = " "

\* ImageDraw.text at `at` of a run whose box was measured as bbox with stroke
\* width sw: the glyphs are taken as a solid block; a run drawn with stroke
\* width k paints the block grown by k in stroke_fill, then the block in fill
draw_text(canvas, at, bbox, sw, fill, k, stroke_fill) ==
    LET l == at[1] + bbox[1] + sw
        t == at[2] + bbox[2] + sw
        r == at[1] + bbox[3] - sw
        b == at[2] + bbox[4] - sw
    IN  [canvas EXCEPT !.px =
            [p \in Coords(canvas.size) |->
                IF l <= p[1] /\ p[1] < r /\ t <= p[2] /\ p[2] < b
                THEN fill
                ELSE IF l - k <= p[1] /\ p[1] < r + k /\ t - k <= p[2] /\ p[2] < b + k
                THEN stroke_fill
                ELSE canvas.px[p]]]

\* measure is the box draw.textbbox returns for the text in the loaded font,
\* or None when measuring raises
compose_text_watermark(text, font_size0, color_rgba, stroke_width0, stroke_rgba, shadow_offset, shadow_rgba, measure) ==
    LET text1 == IF is_blank(text) THEN Sample ELSE text
        font_size == max(8, min(font_size0, 500))
        stroke_width == max(0, min(stroke_width0, 20))
        text_w == IF measure # None THEN max(1, measure[3] - measure[1])
                  ELSE (Len(text1) * font_size) \div 2
        text_h == IF measure # None THEN max(1, measure[4] - measure[2])
                  ELSE font_size
        bbox == IF measure # None THEN measure ELSE <<0, 0, text_w, text_h>>
        shadow_pad == IF shadow_offset # <<0, 0>>
                      THEN max(abs(shadow_offset[1]), abs(shadow_offset[2]))
                      ELSE 0
        pad == max(10, stroke_width + shadow_pad + 5)
        canvas_w == min(max(text_w + pad * 2, 50), 2000)
        canvas_h == min(max(text_h + pad * 2, 20), 1000)
        canvas == [mode |-> "RGBA", size |-> <<canvas_w, canvas_h>>,
                   px |-> [p \in Coords(<<canvas_w, canvas_h>>) |-> Transparent]]
        x == (canvas_w - text_w) \div 2
        y == (canvas_h - text_h) \div 2
        shadowed ==
            IF shadow_rgba # None /\ shadow_offset # <<0, 0>>
            THEN draw_text(canvas, <<x + shadow_offset[1], y + shadow_offset[2]>>, bbox,
                           stroke_width, shadow_rgba, stroke_width,
                           IF stroke_rgba = None THEN shadow_rgba ELSE stroke_rgba)
            ELSE canvas
        safe_color_rgba == IF color_rgba # None THEN color_rgba ELSE <<255, 255, 255, 255>>
    IN  IF stroke_width > 0 /\ stroke_rgba # None
        THEN draw_text(shadowed, <<x, y>>, bbox, stroke_width, safe_color_rgba,
                       stroke_width, stroke_rgba)
        ELSE draw_text(shadowed, <<x, y>>, bbox, stroke_width, safe_color_rgba,
                       0, safe_color_rgba)

-----------------------------------------------------------------------------
(* Rotation, compositor, export pipeline *)

\* rotate_image_rgba with the short-circuit testing angle_deg == 0
rotate_image_rgba_zero_only(h, id, angle_deg) ==
    IF angle_deg = 0
    THEN [heap |-> h, id |-> id]
    ELSE alloc(h, rotate(h[id], angle_deg))

\* the input object itself for whole turns, a new rotated image otherwise
rotate_image_rgba(h, id, angle_deg) ==
    IF angle_deg % 360 = 0
    THEN [heap |-> h, id |-> id]
    ELSE alloc(h, rotate(h[id], angle_deg))

\* img = base_img.convert("RGBA") that keeps an image already in RGBA
to_rgba_same_object(h, base) ==
    IF h[base].mode = "RGBA" THEN [heap |-> h, id |-> base]
    ELSE alloc(h, convert(h[base], "RGBA"))

\* img = base_img.convert("RGBA"): a new object in every case
to_rgba(h, base) == alloc(h, convert(h[base], "RGBA"))

\* out = img.copy()
copy_image(h, img) == alloc(h, h[img])

\* paste_with_alpha as Image.paste(overlay, pos): the overlay replaces the pixels
paste_with_alpha_replacing(h, base, overlay, at) ==
    [h EXCEPT ![base] =
        [@ EXCEPT !.px =
            [p \in Coords(h[base].size) |->
                LET q == <<p[1] - at[1], p[2] - at[2]>>
                IN  IF q \in Coords(h[overlay].size) THEN h[overlay].px[q]
                    ELSE h[base].px[p]]]]

\* paste_with_alpha moving a negative destination to the edge
paste_with_alpha_clamped(h, base, overlay, at) ==
    [h EXCEPT ![base] = alpha_composite(h[base], h[overlay], <<max(0, at[1]), max(0, at[2])>>)]

\* base.alpha_composite(overlay, dest=pos): base is changed in place
paste_with_alpha(h, base, overlay, at) ==
    [h EXCEPT ![base] = alpha_composite(h[base], h[overlay], at)]

\* apply_resize returns img itself when no option applies
apply_resize(h, img, resize_opts) ==
    LET get(k) == IF k \in DOMAIN resize_opts THEN resize_opts[k] ELSE 0
        width == get("width")
        height == get("height")
        percent == get("percent")
        W == h[img].size[1]
        H == h[img].size[2]
    IN  IF percent # 0
        THEN alloc(h, resize(h[img], scaled_size(<<W, H>>, min_scale(percent))))
        ELSE IF width # 0 /\ height # 0
        THEN alloc(h, resize(h[img], <<width, height>>))
        ELSE IF width # 0
        THEN alloc(h, resize(h[img], <<width, max(1, int_div(H * width, W))>>))
        ELSE IF height # 0
        THEN alloc(h, resize(h[img], <<max(1, int_div(W * height, H)), height>>))
        ELSE [heap |-> h, id |-> img]

\* the manual offset as apply_watermark hands it to calc_position
\* (preview_scale_factor is None or the fraction <<numerator, denominator>>)
scaled_manual(manual, preview_scale_factor) ==
    IF manual # None /\ preview_scale_factor # None /\ preview_scale_factor[1] > 0
    THEN <<int_div(manual[1] * preview_scale_factor[2], PosDen * preview_scale_factor[1]) * PosDen,
           int_div(manual[2] * preview_scale_factor[2], PosDen * preview_scale_factor[1]) * PosDen>>
    ELSE manual

\* the result of apply_watermark on the heap h with the files fs:
\* [heap, ret] and what was composited ([early, wm0, wm, pos])
apply_watermark(h, fs, base, settings, measure, preview_scale_factor) ==
    LET typ == settings.type
        opacity == clamp(settings.opacity, 0, OpDen)
        rotation_deg == settings.rotation_deg
        manual == scaled_manual(settings.manual_pos_px, preview_scale_factor)
        color_rgba == settings.color_rgba
        wm_path == settings.wm_image_path
        missing == wm_path = NoneKey \/ wm_path \notin DOMAIN fs
        \* wm = compose_text_watermark(...)
        text_wm(a_img) ==
            alloc(a_img.heap,
                  compose_text_watermark(settings.text, settings.font_size,
                      <<color_rgba[1], color_rgba[2], color_rgba[3],
                        int_div(255 * opacity, OpDen)>>,
                      settings.stroke_width, settings.stroke_rgba,
                      settings.shadow_offset, settings.shadow_rgba, measure))
        \* wm = Image.open(wm_path).convert("RGBA"), resized, alpha scaled in place
        image_wm(a_img) ==
            then(alloc(a_img.heap, convert(fs[wm_path], "RGBA")), LAMBDA a_open :
            then(alloc(a_open.heap,
                       resize(a_open.heap[a_open.id],
                              scaled_size(a_open.heap[a_open.id].size,
                                          min_scale(settings.wm_scale)))), LAMBDA wm :
                IF opacity < OpDen
                THEN [heap |-> [wm.heap EXCEPT ![wm.id] = putalpha(@, enhance(@, opacity))],
                      id |-> wm.id]
                ELSE wm))
        \* the rotation step
        rotated(wm0) ==
            IF rotation_deg % 360 # 0
            THEN rotate_image_rgba(wm0.heap, wm0.id, rotation_deg)
            ELSE wm0
        \* pos = calc_position(...); out = img.copy(); paste_with_alpha(out, wm, pos)
        composited(img, wm0, wm) ==
            then(calc_position(wm.heap[img].size, wm.heap[wm.id].size,
                               settings.position_preset, manual, settings.margin), LAMBDA at :
            then(copy_image(wm.heap, img), LAMBDA out :
                [heap |-> paste_with_alpha(out.heap, out.id, wm.id, at), ret |-> out.id,
                 early |-> FALSE, wm0 |-> wm0.heap[wm0.id].size,
                 wm |-> wm.heap[wm.id].size, pos |-> at]))
    IN  \* img = base_img.convert("RGBA")
        then(to_rgba(h, base), LAMBDA a_img :
            IF typ # "text" /\ missing
            THEN [heap |-> a_img.heap, ret |-> a_img.id, early |-> TRUE,
                  wm0 |-> <<0, 0>>, wm |-> <<0, 0>>, pos |-> <<0, 0>>]
            ELSE then(IF typ = "text" THEN text_wm(a_img) ELSE image_wm(a_img), LAMBDA wm0 :
                 then(rotated(wm0), LAMBDA wm :
                      composited(a_img.id, wm0, wm))))

\* export_image resizing the base first and compositing onto the resized image
export_image_resize_first(h, fs, base, settings, measure, export_opts, preview_scale_factor) ==
    LET resize_opts == export_opts.resize
    IN  IF DOMAIN resize_opts # {}
        THEN then(apply_resize(h, base, resize_opts), LAMBDA resized :
                 apply_watermark(resized.heap, fs, resized.id, settings, measure,
                                 preview_scale_factor))
        ELSE apply_watermark(h, fs, base, settings, measure, preview_scale_factor)

\* export_image: composite, then resize when resize options are given
export_image(h, fs, base, settings, measure, export_opts, preview_scale_factor) ==
    LET resize_opts == export_opts.resize
    IN  then(apply_watermark(h, fs, base, settings, measure, preview_scale_factor),
             LAMBDA composed :
                IF DOMAIN resize_opts # {}
                THEN then(apply_resize(composed.heap, composed.ret, resize_opts),
                          LAMBDA resized :
                              [composed EXCEPT !.heap = resized.heap, !.ret = resized.id])
                ELSE composed)

-----------------------------------------------------------------------------
(* The variables of a specification that does not use them *)

OpacityIdle ==
    /\ wm_img = None
    /\ opacity1 = 0
    /\ opacity2 = 0
    /\ prepared1 = None
    /\ prepared2 = None
    /\ opc = "idle"

EngineIdle ==
    /\ files = <<>>
    /\ heap = <<>>
    /\ base_img = 0
    /\ base0 = None
    /\ call = [fn |-> "none"]
    /\ ret = 0
    /\ composite = None

LstIdle == lst = None

CliIdle == cli = None /\ LstIdle

TextCallIdle == text_call = None /\ CliIdle

GuiIdle == gui = None /\ user = None /\ TextCallIdle

TextViewIdle == text_view = None /\ GuiIdle

PreviewIdle == preview = None /\ TextViewIdle

TemplateIdle ==
    /\ template_dir = None
    /\ kv = None
    /\ tcall = None
    /\ PreviewIdle

FontIdle ==
    /\ font_disk = None
    /\ font_call = None

BatchIdle ==
    /\ job = None
    /\ batch = None
    /\ FontIdle
    /\ TemplateIdle

PositionIdle ==
    /\ base_size = <<1, 1>>
    /\ overlay_size = <<1, 1>>
    /\ margin = <<0, 0>>
    /\ preset_key = NoneKey
    /\ manual_pos_px = None
    /\ pos = None
    /\ pos2 = None
    /\ ppc = "idle"

-----------------------------------------------------------------------------
(* SpecPosition: calc_position on bounded inputs *)

PresetKeys == PresetNames \cup {"unknown", NoneKey}

ManualCoords == (0 - PosDen) .. (MaxManual * PosDen - 1)

\* the vertical offsets: above the image, at the edge, a fraction, far down
ManualRows == {0 - PosDen, 0, 1, MaxManual * PosDen - 1}

ManualOffsets == {None} \cup (ManualCoords \X ManualRows)

InitPosition ==
    /\ base_size \in (1..MaxBase) \X (1..MaxBase)
    /\ overlay_size \in (1..MaxOverlay) \X (1..MaxOverlay)
    /\ margin \in {0, MaxMargin} \X {0, MaxMargin}
    /\ preset_key \in PresetKeys
    /\ manual_pos_px \in ManualOffsets
    /\ pos = None
    /\ pos2 = None
    /\ ppc = "start"
    /\ EngineIdle
    /\ OpacityIdle
    /\ BatchIdle

\* pos = calc_position(base_size, overlay_size, preset_key, manual_pos_px, margin)
CalcPosition ==
    /\ ppc = "start"
    /\ pos' = calc_position(base_size, overlay_size, preset_key, manual_pos_px, margin)
    /\ ppc' = "resolved"
    /\ UNCHANGED <<base_size, overlay_size, margin, preset_key, manual_pos_px, pos2>>
    /\ UNCHANGED OutsidePosition

\* the resolved position handed back as the manual offset of a second call
Reclamp ==
    /\ ppc = "resolved"
    /\ manual_pos_px # None
    /\ pos2' = calc_position(base_size, overlay_size, preset_key,
                             <<pos[1] * PosDen, pos[2] * PosDen>>, margin)
    /\ ppc' = "reclamped"
    /\ UNCHANGED <<base_size, overlay_size, margin, preset_key, manual_pos_px, pos>>
    /\ UNCHANGED OutsidePosition

NextPosition == CalcPosition \/ Reclamp

SpecPosition == InitPosition /\ [][NextPosition]_vars

-----------------------------------------------------------------------------
(* Spec: the engine called on a base image by a caller that keeps it *)

\* the pixels of the base image the caller loaded (load_image_any: RGB or RGBA)
BaseImage(mode, size) ==
    [mode |-> mode, size |-> size,
     px |-> [p \in Coords(size) |->
               LET a == CASE (p[1] + p[2]) % 3 = 0 -> 255
                          [] (p[1] + p[2]) % 3 = 1 -> 128
                          [] OTHER -> 0
               IN  IF mode = "RGBA"
                   THEN <<40 + 20 * p[1], 60 + 30 * p[2], 200, a>>
                   ELSE <<40 + 20 * p[1], 60 + 30 * p[2], 200>>]]

\* the pixels of the watermark file: half transparent, opaque, transparent, ...
WmFile(size) ==
    [mode |-> "RGBA", size |-> size,
     px |-> [p \in Coords(size) |->
               <<250 - 10 * p[1], 10 + p[2], 100,
                 CASE (p[1] + p[2]) % 3 = 0 -> 128
                   [] (p[1] + p[2]) % 3 = 1 -> 255
                   [] OTHER -> 0>>]]

Opacities == {0, OpDen \div 2, OpDen}

Rotations == {0, 90, 360}

Turns == {0 - 720, 0 - 360, 0 - 90, 0, 90, 180, 270, 360, 720}

\* preset, manual offset (in 1/PosDen pixel) and margin of a call
Placements ==
    {[position_preset |-> "center", manual_pos_px |-> None, margin |-> <<0, 0>>],
     [position_preset |-> "top_left", manual_pos_px |-> None, margin |-> <<1, 1>>],
     [position_preset |-> "bottom_right", manual_pos_px |-> None, margin |-> <<1, 0>>],
     [position_preset |-> NoneKey, manual_pos_px |-> <<0, 0>>, margin |-> <<0, 0>>],
     [position_preset |-> NoneKey, manual_pos_px |-> <<0 - 2, 5>>, margin |-> <<1, 0>>],
     [position_preset |-> "bottom_right", manual_pos_px |-> <<3, 1>>, margin |-> <<0, 0>>]}

TextStyles ==
    {[text |-> <<"T", "E", "S", "T">>, stroke_width |-> 0, stroke_rgba |-> None,
      shadow_offset |-> <<0, 0>>, shadow_rgba |-> None],
     [text |-> <<" ">>, stroke_width |-> 2, stroke_rgba |-> <<0, 0, 0, 255>>,
      shadow_offset |-> <<2, 2>>, shadow_rgba |-> <<128, 128, 128, 128>>]}

ImageSources ==
    {[wm_image_path |-> NoneKey, wm_scale |-> ScaleDen],
     [wm_image_path |-> "gone.png", wm_scale |-> ScaleDen]}
    \cup {[wm_image_path |-> "logo.png", wm_scale |-> s] : s \in {1, ScaleDen, 2 * ScaleDen}}

\* the settings mapping batch_export builds: every key is present
Settings(typ, o, r, pl, ts, is) ==
    [type |-> typ, opacity |-> o, rotation_deg |-> r,
     position_preset |-> pl.position_preset, manual_pos_px |-> pl.manual_pos_px,
     margin |-> pl.margin,
     text |-> ts.text, font_size |-> 36, color_rgba |-> <<255, 255, 255, 255>>,
     stroke_width |-> ts.stroke_width, stroke_rgba |-> ts.stroke_rgba,
     shadow_offset |-> ts.shadow_offset, shadow_rgba |-> ts.shadow_rgba,
     wm_image_path |-> is.wm_image_path, wm_scale |-> is.wm_scale]

DefaultText == CHOOSE ts \in TextStyles : ts.stroke_width = 0

DefaultImage == CHOOSE is \in ImageSources : is.wm_image_path = NoneKey

SettingsInputs ==
    {Settings("text", o, r, pl, ts, DefaultImage) :
        o \in Opacities, r \in Rotations, pl \in Placements, ts \in TextStyles}
    \cup {Settings("image", o, r, pl, DefaultText, is) :
        o \in Opacities, r \in Rotations, pl \in Placements, is \in ImageSources}

\* settings with numbers outside their ranges: opacity below 0 and above 1,
\* font sizes below 8 and above 500, stroke widths below 0 and above 20,
\* watermark scales 0 and below
OutOfRangeSettings ==
    LET centre == CHOOSE pl \in Placements :
                     pl.position_preset = "center" /\ pl.manual_pos_px = None
        styled == CHOOSE ts \in TextStyles : ts.stroke_rgba # None
    IN  {[Settings("text", o, 0, centre, styled, DefaultImage)
            EXCEPT !.font_size = f, !.stroke_width = w] :
            o \in {0 - 1, OpDen + 1}, f \in {0 - 3, 0, 7, 501}, w \in {0 - 1, 21}}
        \cup {Settings("image", o, 0, centre, DefaultText,
                       [wm_image_path |-> "logo.png", wm_scale |-> sc]) :
                 o \in {0 - 1, OpDen + 1}, sc \in {0 - ScaleDen, 0}}

\* what draw.textbbox((0, 0), text, font, stroke_width) measures
MeasuredBoxes == {<<0, 9, 80, 36>>}

\* the measurements tried with settings s: for the out-of-range ones also
\* None, textbbox raising, where the size is computed from the font size
MeasuredFor(s) == IF s \in OutOfRangeSettings THEN MeasuredBoxes \cup {None} ELSE MeasuredBoxes

\* preview_scale_factor: None or a fraction
PreviewScales == {None, <<1, 2>>}

\* export_opts["resize"]: the keys ExportDialog.get_opts filled in
ResizeOptions == {EmptyDict, "percent" :> 1}

NoCall ==
    [fn |-> "none", settings |-> Settings("text", OpDen, 0, CHOOSE pl \in Placements : TRUE,
                                          DefaultText, DefaultImage),
     measure |-> None, preview_scale_factor |-> None, resize |-> EmptyDict, angle |-> 0]

NoComposite == [early |-> TRUE, wm0 |-> <<0, 0>>, wm |-> <<0, 0>>, pos |-> <<0, 0>>]

Init ==
    /\ files \in {("logo.png" :> WmFile(<<w, 1>>)) : w \in 1 .. MaxWmW}
    /\ base_img = 1
    /\ \E mode \in {"RGB", "RGBA"}, size \in (1 .. MaxBaseW) \X (1 .. MaxBaseH) :
          /\ heap = (1 :> BaseImage(mode, size))
          /\ base0 = BaseImage(mode, size)
    /\ call = NoCall
    /\ ret = 0
    /\ composite = NoComposite
    /\ PositionIdle
    /\ OpacityIdle
    /\ BatchIdle

\* the caller keeps the base image and the image a call returned; each base
\* image is loaded for one call (batch_export loads it anew for every item)
Returned(r, c) ==
    /\ heap' = live(r.heap, {base_img, r.ret})
    /\ ret' = r.ret
    /\ composite' = [early |-> r.early, wm0 |-> r.wm0, wm |-> r.wm, pos |-> r.pos]
    /\ call' = c
    /\ UNCHANGED <<files, base_img, base0>>
    /\ UNCHANGED OutsideEngine

\* apply_watermark(base_img, settings, preview_scale_factor)
ApplyWatermark ==
    \E s \in SettingsInputs \cup OutOfRangeSettings, f \in PreviewScales :
      \E m \in MeasuredFor(s) :
        /\ call.fn = "none"
        /\ \E r \in {apply_watermark(live(heap, {base_img}), files, base_img, s, m, f)} :
              Returned(r, [NoCall EXCEPT !.fn = "apply_watermark", !.settings = s,
                                         !.measure = m, !.preview_scale_factor = f])

\* export_image(base_img, settings, export_opts), as batch_export calls it
ExportImage ==
    \E s \in SettingsInputs, m \in MeasuredBoxes, o \in ResizeOptions :
        /\ call.fn = "none"
        /\ \E r \in {export_image(live(heap, {base_img}), files, base_img, s, m,
                                  [resize |-> o], None)} :
              Returned(r, [NoCall EXCEPT !.fn = "export_image", !.settings = s,
                                         !.measure = m, !.resize = o])

\* rotate_image_rgba(base_img, angle_deg)
RotateImageRgba ==
    \E angle \in Turns :
        \E r \in {rotate_image_rgba(live(heap, {base_img}), base_img, angle)} :
            /\ call.fn = "none"
            /\ heap' = live(r.heap, {base_img, r.id})
            /\ ret' = r.id
            /\ composite' = NoComposite
            /\ call' = [NoCall EXCEPT !.fn = "rotate_image_rgba", !.angle = angle]
            /\ UNCHANGED <<files, base_img, base0>>
            /\ UNCHANGED OutsideEngine

\* what ExportDialog.get_opts reads from one field: nothing ({}) or a number
WidthRequests == {{}, {1}, {2}, {MaxBaseW + 2}}

\* percent in units of 1/ScaleDen: absent, negative, zero, a half, one, one and a half
PercentRequests == {{}, {0 - 1}, {0}, {1}, {ScaleDen}, {ScaleDen + 1}}

\* the dict get_opts builds from the three fields: only the filled keys are present
resize_dict(w, hh, pc) ==
    [k \in ({"width" : x \in w} \cup {"height" : x \in hh} \cup {"percent" : x \in pc}) |->
        CASE k = "width" -> CHOOSE x \in w : TRUE
          [] k = "height" -> CHOOSE x \in hh : TRUE
          [] OTHER -> CHOOSE x \in pc : TRUE]

ResizeRequests ==
    {resize_dict(w, hh, pc) : w \in WidthRequests, hh \in WidthRequests, pc \in PercentRequests}

\* apply_resize(base_img, resize_opts)
ApplyResize ==
    \E o \in ResizeRequests :
        \E r \in {apply_resize(live(heap, {base_img}), base_img, o)} :
            /\ call.fn = "none"
            /\ heap' = live(r.heap, {base_img, r.id})
            /\ ret' = r.id
            /\ composite' = NoComposite
            /\ call' = [NoCall EXCEPT !.fn = "apply_resize", !.resize = o]
            /\ UNCHANGED <<files, base_img, base0>>
            /\ UNCHANGED OutsideEngine

Next == ApplyWatermark \/ ExportImage \/ RotateImageRgba \/ ApplyResize

Spec == Init /\ [][Next]_vars

-----------------------------------------------------------------------------
(* SpecOpacity: compose_image_watermark called twice on one watermark *)

InitOpacity ==
    /\ \E a \in 0 .. 255 :
          wm_img = [mode |-> "RGBA", size |-> <<1, 1>>,
                    px |-> [p \in Coords(<<1, 1>>) |-> <<250, 10, 100, a>>]]
    /\ opacity1 \in 0 .. OpDen
    /\ opacity2 \in 0 .. OpDen
    /\ prepared1 = None
    /\ prepared2 = None
    /\ opc = "start"
    /\ PositionIdle
    /\ EngineIdle
    /\ BatchIdle

\* prepared1 = compose_image_watermark(wm_img, 1.0, opacity1)
ComposeFirst ==
    /\ opc = "start"
    /\ prepared1' = compose_image_watermark(wm_img, ScaleDen, opacity1)
    /\ opc' = "first"
    /\ UNCHANGED <<wm_img, opacity1, opacity2, prepared2>>
    /\ UNCHANGED OutsideOpacity

\* prepared2 = compose_image_watermark(wm_img, 1.0, opacity2)
ComposeSecond ==
    /\ opc = "first"
    /\ prepared2' = compose_image_watermark(wm_img, ScaleDen, opacity2)
    /\ opc' = "second"
    /\ UNCHANGED <<wm_img, opacity1, opacity2, prepared1>>
    /\ UNCHANGED OutsideOpacity

NextOpacity == ComposeFirst \/ ComposeSecond

SpecOpacity == InitOpacity /\ [][NextOpacity]_vars

-----------------------------------------------------------------------------
(* SpecBatch: MainWindow.batch_export over a list of imported images *)

MaxImages == 2      \* at most MaxImages images are imported

\* the image files the user imported, as _add_paths stored their paths;
\* os.walk joins a subfolder with the separator of the platform; the file of
\* the subfolder has the stem of a file of the folder
SourcePaths ==
    {[dir |-> "C:/pics", name |-> <<"a">>, ext |-> ".jpg"],
     [dir |-> "C:/pics\\sub", name |-> <<"a">>, ext |-> ".png"],
     [dir |-> "C:/pics", name |-> <<"gone">>, ext |-> ".bmp"],
     [dir |-> "C:/pics", name |-> <<"cut">>, ext |-> ".jpg"]}

\* what is on disk under a source path when the batch runs: an image, nothing
\* (or no image format), or an image file cut short after its header
source_kind(p) ==
    CASE p.name = <<"gone">> -> "missing"
      [] p.name = <<"cut">> -> "truncated"
      [] OTHER -> "ok"

\* Image.open(path) of a source file that opens
source_image(p) ==
    IF p.ext = ".png" THEN BaseImage("RGBA", <<3, 2>>) ELSE BaseImage("RGB", <<2, 2>>)

\* load_image_any(path): the image, or None when Image.open raises
load_image_any(p) == IF source_kind(p) = "missing" THEN None ELSE source_image(p)

\* os.path.dirname(p)
dirname(p) == p.dir

\* the directory a spelling names: the file system takes both separators
directory_of(spelling) == IF spelling = "C:/pics\\sub" THEN "C:/pics/sub" ELSE spelling

\* opts["out_dir"]: None, or the folder QFileDialog.getExistingDirectory returned
OutDirs == {NoneKey, "C:/pics", "C:/pics/sub", "E:/out"}

\* the watermark of the batch: text, or an image file that is fine, absent, or unreadable
WatermarkKinds == {"text", "image", "image_missing", "image_corrupt"}

\* the settings mapping batch_export builds for every item
batch_settings(kind) ==
    LET centre == CHOOSE pl \in Placements :
                     pl.position_preset = "center" /\ pl.manual_pos_px = None
        source == [wm_image_path |-> CASE kind = "image_missing" -> "gone.png"
                                        [] kind = "image_corrupt" -> "bad.png"
                                        [] OTHER -> "logo.png",
                   wm_scale |-> ScaleDen]
    IN  Settings(IF kind = "text" THEN "text" ELSE "image", OpDen, 0, centre, DefaultText, source)

\* the watermark files export_image can open
batch_files == ("logo.png" :> WmFile(<<2, 1>>))

\* export_image raises: base_img.convert fails on a file cut short, and
\* Image.open(wm_path) fails on a watermark file that is not an image
export_raises(p, kind) == source_kind(p) = "truncated" \/ kind = "image_corrupt"

\* the image export_image returns for the source image at p
exported(p, kind, resize_opts) ==
    then(export_image((1 :> load_image_any(p)), batch_files, 1, batch_settings(kind),
                      CHOOSE m \in MeasuredBoxes : TRUE, [resize |-> resize_opts], None),
         LAMBDA r : r.heap[r.ret])

\* out_name by the naming rule
out_name(base_name, name_rule, prefix, suffix) ==
    IF name_rule = "prefix" /\ prefix # <<>> THEN prefix \o base_name
    ELSE IF name_rule = "suffix" /\ suffix # <<>> THEN base_name \o suffix
    ELSE base_name

\* the image handed to the encoder without the conversion
encoder_input_unconverted(img, fmt) == img

\* the image handed to the encoder: JPEG has no alpha
encoder_input(img, fmt) == IF fmt = "JPEG" THEN convert(img, "RGB") ELSE img

\* the counter counting every attempt
count_after_attempt(count, saved) == count + 1

\* count += 1 inside the try, after a save that did not raise
count_after(count, saved) == IF saved THEN count + 1 ELSE count

BatchStartState == [pc |-> "start", i |-> 1, count |-> 0, loaded |-> {}, log |-> <<>>, written |-> {}]

ImageLists == UNION {[1 .. n -> SourcePaths] : n \in 0 .. MaxImages}

InitBatch ==
    /\ job \in [images : ImageLists, out_dir : OutDirs, format : {"JPEG", "PNG"},
                 resize : ResizeOptions, watermark : WatermarkKinds,
                 name_rule : {"keep", "prefix"}]
    /\ batch = BatchStartState
    /\ PositionIdle
    /\ EngineIdle
    /\ OpacityIdle
    /\ FontIdle
    /\ TemplateIdle

\* batch_export up to its loop: the dialog and the three rejections
BatchStart ==
    /\ batch.pc = "start"
    /\ \E accepted \in BOOLEAN :
          batch' = [batch EXCEPT !.pc =
                        IF job.images = <<>> THEN "no_images"
                        ELSE IF ~accepted THEN "cancelled"
                        ELSE IF job.out_dir = NoneKey THEN "no_out_dir"
                        ELSE IF \E k \in DOMAIN job.images : dirname(job.images[k]) = job.out_dir
                        THEN "same_dir"
                        ELSE "loop"]
    /\ UNCHANGED job
    /\ UNCHANGED OutsideBatch

\* one turn of the loop for the image at batch.i
BatchItem ==
    /\ batch.pc = "loop"
    /\ batch.i <= Len(job.images)
    /\ LET p == job.images[batch.i]
           entry(outcome, ex, enc, path) ==
               [index |-> batch.i, outcome |-> outcome, export |-> ex, encoded |-> enc,
                out_path |-> path]
       IN  IF load_image_any(p) = None
           THEN \* if not base: continue
                batch' = [batch EXCEPT !.i = @ + 1,
                                       !.log = Append(@, entry("skipped", None, None, None))]
           ELSE IF export_raises(p, job.watermark)
           THEN \* the exception leaves export_image and batch_export
                batch' = [batch EXCEPT !.pc = "raised", !.loaded = @ \cup {batch.i},
                                       !.log = Append(@, entry("raised", None, None, None))]
           ELSE \E composed \in {exported(p, job.watermark, job.resize)} :
                \E saved \in BOOLEAN :
                   LET path == [dir |-> job.out_dir,
                                name |-> out_name(p.name, job.name_rule, <<"wm_">>, <<>>),
                                ext |-> IF job.format = "JPEG" THEN ".jpg" ELSE ".png"]
                       enc == encoder_input(composed, job.format)
                   IN  batch' = [batch EXCEPT
                                   !.i = @ + 1,
                                   !.loaded = @ \cup {batch.i},
                                   !.count = count_after(@, saved),
                                   !.written = IF saved THEN @ \cup {path} ELSE @,
                                   !.log = Append(@, entry(IF saved THEN "saved" ELSE "save_failed",
                                                           composed, enc, path))]
    /\ UNCHANGED job
    /\ UNCHANGED OutsideBatch

\* after the last image: the message box reporting count
BatchFinish ==
    /\ batch.pc = "loop"
    /\ batch.i > Len(job.images)
    /\ batch' = [batch EXCEPT !.pc = "done"]
    /\ UNCHANGED job
    /\ UNCHANGED OutsideBatch

NextBatch == BatchStart \/ BatchItem \/ BatchFinish

SpecBatch == InitBatch /\ [][NextBatch]_vars

-----------------------------------------------------------------------------
(* SpecFont: load_font against the font files of the machine *)

\* index=None of a candidate: ImageFont.truetype is called without index
NoIndex == 0 - 1

Helvetica_ttc == "/System/Library/Fonts/Helvetica.ttc"

Times_ttc == "/System/Library/Fonts/Times.ttc"

Arial_ttf == "/System/Library/Fonts/Supplemental/Arial.ttf"

System_Arial_ttf == "/System/Library/Fonts/Arial.ttf"

\* font_files: family -> (regular, bold, italic, bold italic) file
font_files ==
    [Arial |-> <<Arial_ttf,
                 "/System/Library/Fonts/Supplemental/Arial Bold.ttf",
                 "/System/Library/Fonts/Supplemental/Arial Italic.ttf",
                 "/System/Library/Fonts/Supplemental/Arial Bold Italic.ttf">>,
     Helvetica |-> <<Helvetica_ttc, Helvetica_ttc, Helvetica_ttc, Helvetica_ttc>>,
     Times |-> <<Times_ttc, Times_ttc, Times_ttc, Times_ttc>>,
     TimesNewRoman |-> <<Times_ttc, Times_ttc, Times_ttc, Times_ttc>>]

\* the position of the (bold, italic) variant in a row of font_files
variant(bold, italic) == 1 + (IF bold THEN 1 ELSE 0) + (IF italic THEN 2 ELSE 0)

\* the face index of a variant in a .ttc: 0 regular, 1 bold, 2 italic, 3 bold italic
face_index(bold, italic) ==
    IF bold /\ italic THEN 3 ELSE IF bold THEN 1 ELSE IF italic THEN 2 ELSE 0

is_ttc(path) == path \in {Helvetica_ttc, Times_ttc}

\* the candidates of the family: its exact variant; the regular variant only
\* when the table has no exact variant, which it always has
family_paths(font_family, bold, italic) ==
    IF font_family \in DOMAIN font_files
    THEN LET path == font_files[font_family][variant(bold, italic)]
         IN  <<(<<path, IF is_ttc(path) THEN face_index(bold, italic) ELSE NoIndex>>)>>
    ELSE <<>>

\* font_search_paths, then the list fallback_fonts
search_order(font_family, bold, italic) ==
    family_paths(font_family, bold, italic)
    \o <<(<<Helvetica_ttc, 0>>), (<<Times_ttc, 0>>), (<<Arial_ttf, NoIndex>>)>>
    \o <<(<<Helvetica_ttc, NoIndex>>), (<<System_Arial_ttf, NoIndex>>), (<<Times_ttc, NoIndex>>)>>

\* os.path.exists(path) and ImageFont.truetype(path, size, index) does not raise
loads(disk, cand) ==
    IF is_ttc(cand[1])
    THEN disk.faces[cand[1]] > (IF cand[2] = NoIndex THEN 0 ELSE cand[2])
    ELSE cand[1] \in disk.files

\* the first candidate from position k on that loads; ImageFont.load_default() after the last
RECURSIVE first_loading(_, _, _, _)
first_loading(disk, order, k, size) ==
    IF k > Len(order) THEN [path |-> "default", index |-> NoIndex, size |-> 0]
    ELSE IF loads(disk, order[k]) THEN [path |-> order[k][1], index |-> order[k][2], size |-> size]
    ELSE first_loading(disk, order, k + 1, size)

\* load_font giving up after the candidates of the family
load_font_family_only(disk, font_family, size, bold, italic) ==
    first_loading(disk, family_paths(font_family, bold, italic), 1, max(8, min(size, 500)))

\* load_font(font_family, size, bold, italic)
load_font(disk, font_family, size, bold, italic) ==
    first_loading(disk, search_order(font_family, bold, italic), 1, max(8, min(size, 500)))

\* font families a caller names: the four of the table, another one, none
FontFamilies == DOMAIN font_files \cup {"Comic", NoneKey}

FontSizes == {0 - 5, 0, 36, 501}

TtfFiles == {font_files.Arial[v] : v \in 1 .. 4} \cup {System_Arial_ttf}

\* what the machine has: any of the ttf files, 0..4 faces in each collection
FontDisks ==
    [files : SUBSET TtfFiles, faces : [{Helvetica_ttc, Times_ttc} -> 0 .. 4]]

InitFont ==
    /\ font_disk \in FontDisks
    /\ font_call \in [font_family : FontFamilies, size : FontSizes, bold : BOOLEAN,
                       italic : BOOLEAN, pc : {"start"}, font : {None}]
    /\ PositionIdle
    /\ EngineIdle
    /\ OpacityIdle
    /\ job = None
    /\ batch = None
    /\ TemplateIdle

\* font = load_font(font_family, size, bold, italic)
LoadFont ==
    /\ font_call.pc = "start"
    /\ font_call' = [font_call EXCEPT
                        !.pc = "returned",
                        !.font = load_font(font_disk, font_call.font_family, font_call.size,
                                           font_call.bold, font_call.italic)]
    /\ UNCHANGED font_disk
    /\ UNCHANGED OutsideFont

NextFont == LoadFont

SpecFont == InitFont /\ [][NextFont]_vars

-----------------------------------------------------------------------------
(* SpecTemplate: save_template, load_template, delete_template, list_templates *)

\* the characters save_template keeps: c.isalnum() or c in ("_", "-", ".")
SafeChars == {"a", "b", "1", "_", "-", "."}

is_safe_char(c) == c \in SafeChars

\* safe_name = "".join(c for c in name if c.isalnum() or c in ("_", "-", "."))
safe_name(name) == SelectSeq(name, is_safe_char)

\* the name used as it is
raw_name(name) == name

\* the file of a template as save_template names it
save_path(name) == safe_name(name)

\* the file of a template as load_template and delete_template name it
load_path(name) == raw_name(name)

\* json.load(json.dump(v)) of a value: a tuple comes back as a list
json_value(v) == [v EXCEPT !.kind = IF @ = "tuple" THEN "list" ELSE @]

\* json.load(json.dump(settings)) of a settings dict
json_roundtrip(settings) == [k \in DOMAIN settings |-> json_value(settings[k])]

\* template names a caller can pass: the file dialog takes any base name
TemplateNames == {<<"a">>, <<"b">>, <<"a", "b">>, <<"a", " ", "b">>, <<"a", "_", "1">>}

\* settings dicts: the margin as the tuple the application keeps, or as a list
TemplateSettings ==
    {[margin |-> [kind |-> k, items |-> <<m, m>>]] : k \in {"tuple", "list"}, m \in {10, 20}}

NoTemplateCall == [op |-> "none", name |-> <<>>, ret |-> None, plain |-> TRUE]

InitTemplate ==
    /\ template_dir = EmptyDict
    /\ kv = [n \in {} |-> None]
    /\ tcall = NoTemplateCall
    /\ PositionIdle
    /\ EngineIdle
    /\ OpacityIdle
    /\ job = None
    /\ batch = None
    /\ FontIdle
    /\ PreviewIdle

\* the files of the directory after writing doc under file
written(dir, file, doc) == [f \in DOMAIN dir \cup {file} |-> IF f = file THEN doc ELSE dir[f]]

\* the files of the directory after removing file
removed(dir, file) == [f \in DOMAIN dir \ {file} |-> dir[f]]

\* save_template(name, settings)
SaveTemplate ==
    \E name \in TemplateNames, settings \in TemplateSettings :
        /\ template_dir' = written(template_dir, save_path(name), json_roundtrip(settings))
        /\ kv' = written(kv, name, settings)
        /\ tcall' = [op |-> "save", name |-> name, ret |-> save_path(name),
                      plain |-> tcall.plain /\ safe_name(name) = name
                                /\ json_roundtrip(settings) = settings]
        /\ UNCHANGED OutsideTemplate

\* load_template(name): None when the file does not exist
LoadTemplate ==
    \E name \in TemplateNames :
        /\ tcall' = [tcall EXCEPT !.op = "load", !.name = name,
                                   !.ret = IF load_path(name) \in DOMAIN template_dir
                                           THEN template_dir[load_path(name)] ELSE None]
        /\ UNCHANGED <<template_dir, kv>>
        /\ UNCHANGED OutsideTemplate

\* delete_template(name): True when the file existed and was removed
DeleteTemplate ==
    \E name \in TemplateNames :
        LET existed == load_path(name) \in DOMAIN template_dir
        IN  /\ template_dir' = IF existed THEN removed(template_dir, load_path(name))
                                ELSE template_dir
            /\ kv' = IF existed THEN written(kv, name, None) ELSE kv
            /\ tcall' = [tcall EXCEPT !.op = "delete", !.name = name, !.ret = existed]
            /\ UNCHANGED OutsideTemplate

\* list_templates(): the names of the .json files (sorted; the order is not kept here)
ListTemplates ==
    /\ tcall' = [tcall EXCEPT !.op = "list", !.name = <<>>, !.ret = DOMAIN template_dir]
    /\ UNCHANGED <<template_dir, kv>>
    /\ UNCHANGED OutsideTemplate

NextTemplate == SaveTemplate \/ LoadTemplate \/ DeleteTemplate \/ ListTemplates

SpecTemplate == InitTemplate /\ [][NextTemplate]_vars

-----------------------------------------------------------------------------
(* SpecPreview: the watermark item placed in the preview, and the same settings exported *)

MaxPreviewBase == 41    \* the longest side of a previewed base image

MaxPreviewWm == 27      \* the longest side of a watermark image file

PreviewDen == 4         \* preview scale factors are multiples of 1/PreviewDen

\* preview_scale_factor = k / PreviewDen, at most 1.0 (the preview never upscales)
PreviewScaleFactors == 1 .. PreviewDen

\* preview positions are floats: numerators over PlaceDen
PlaceDen == 2 * PreviewDen * PosDen

\* max(1, int(n * scale_factor)): the displayed size of a side of n pixels
display_size(n, k) == max(1, (n * k) \div PreviewDen)

\* max(1, int(n * scale * scale_factor)): the displayed side of the watermark
display_wm_size(n, scale, k) == max(1, (n * scale * k) \div (ScaleDen * PreviewDen))

\* a whole number of preview pixels as a numerator over PlaceDen
whole(n) == n * PlaceDen

\* margin = 10 * self.preview_scale_factor
preview_margin(k) == 10 * k * 2 * PosDen

\* _place_wm_item: the position given to item.setPos, numerators over PlaceDen
place_wm_item(base_rect, item_rect, preset, manual, k) ==
    LET right  == whole(base_rect[1])
        bottom == whole(base_rect[2])
        iw     == whole(item_rect[1])
        ih     == whole(item_rect[2])
        mg     == preview_margin(k)
    IN  IF manual # None
        THEN <<manual[1] * k * 2, manual[2] * k * 2>>
        ELSE CASE preset = "top_left"     -> <<mg, mg>>
               [] preset = "top_right"    -> <<right - iw - mg, mg>>
               [] preset = "bottom_left"  -> <<mg, bottom - ih - mg>>
               [] preset = "bottom_right" -> <<right - iw - mg, bottom - ih - mg>>
               [] OTHER -> <<(base_rect[1] - item_rect[1]) * PreviewDen * PosDen,
                             (base_rect[2] - item_rect[2]) * PreviewDen * PosDen>>

\* an export position multiplied by the preview scale factor, over PlaceDen
times_scale_factor(p, k) == <<p[1] * k * 2 * PosDen, p[2] * k * 2 * PosDen>>

PreviewBaseSizes == {30, MaxPreviewBase} \X {30, MaxPreviewBase - 4}

PreviewWmSizes == {1, 8, MaxPreviewWm} \X {3, MaxPreviewWm - 6}

\* image_settings["wm_scale"]: 0.5 and 1.0
PreviewWmScales == {1, ScaleDen}

\* global_settings["margin"]: the default, and values a loaded template can carry
PreviewMargins == {<<10, 10>>, <<0, 0>>, <<10, 4>>}

\* global_settings["position_preset"]: set_preset gives five of them, a loaded
\* template any
PreviewPresets == PresetNames

PreviewManuals == {None, <<3 * PosDen, 5 * PosDen + 1>>}

InitPreview ==
    /\ preview \in [pc : {"start"},
                     base_size : PreviewBaseSizes,
                     wm_size : PreviewWmSizes,
                     wm_scale : PreviewWmScales,
                     margin : PreviewMargins,
                     position_preset : PreviewPresets,
                     manual_pos_px : PreviewManuals,
                     scale_factor : PreviewScaleFactors,
                     item_pos : {None},
                     export_pos : {None}]
    /\ PositionIdle
    /\ EngineIdle
    /\ OpacityIdle
    /\ job = None
    /\ batch = None
    /\ FontIdle
    /\ template_dir = None
    /\ kv = None
    /\ tcall = None
    /\ TextViewIdle

\* _update_preview for an image watermark: the base and the watermark are shown
\* at their displayed sizes and the item is placed
UpdatePreview ==
    /\ preview.item_pos = None
    /\ preview' = [preview EXCEPT
           !.pc = "placed",
           !.item_pos = place_wm_item(
               <<display_size(preview.base_size[1], preview.scale_factor),
                 display_size(preview.base_size[2], preview.scale_factor)>>,
               <<display_wm_size(preview.wm_size[1], preview.wm_scale, preview.scale_factor),
                 display_wm_size(preview.wm_size[2], preview.wm_scale, preview.scale_factor)>>,
               preview.position_preset, preview.manual_pos_px, preview.scale_factor)]
    /\ UNCHANGED OutsidePreview

\* batch_export with the same settings: the preset is passed only when there
\* is no manual position; apply_watermark resolves the position of the scaled
\* watermark at full size
ExportPosition ==
    /\ preview.export_pos = None
    /\ preview' = [preview EXCEPT
           !.pc = "exported",
           !.export_pos = calc_position(
               preview.base_size,
               scaled_size(preview.wm_size, min_scale(preview.wm_scale)),
               IF preview.manual_pos_px = None THEN preview.position_preset ELSE NoneKey,
               preview.manual_pos_px, preview.margin)]
    /\ UNCHANGED OutsidePreview

NextPreview == UpdatePreview \/ ExportPosition

SpecPreview == InitPreview /\ [][NextPreview]_vars

-----------------------------------------------------------------------------
(* SpecTextOpacity: one text watermark rendered for the export and for the preview *)

\* Image.blend(black, a, factor) of ImageEnhance.Brightness(a).enhance(factor),
\* factor = num / OpDen below 1.0: one alpha value
pil_brightness(i, num) == (i * num) \div OpDen

\* the wm canvas of apply_watermark's text branch: the fill colour is given
\* the alpha int(255 * opacity), stroke and shadow colours are passed as set
apply_watermark_text(settings, opacity0, measure) ==
    LET opacity == clamp(opacity0, 0, OpDen)
    IN  compose_text_watermark(settings.text, settings.font_size,
            <<settings.color_rgba[1], settings.color_rgba[2], settings.color_rgba[3],
              int_div(255 * opacity, OpDen)>>,
            settings.stroke_width, settings.stroke_rgba,
            settings.shadow_offset, settings.shadow_rgba, measure)

\* _render_text_preview: None for an empty text; sizes scaled by the preview
\* scale factor k / PreviewDen; the alpha of the whole canvas scaled afterwards
render_text_preview(settings, opacity, k, measure) ==
    IF settings.text = <<>>
    THEN None
    ELSE LET preview_font_size == max(8, int_div(settings.font_size * k, PreviewDen))
             text_img ==
                 compose_text_watermark(settings.text, preview_font_size,
                     settings.color_rgba,
                     int_div(settings.stroke_width * k, PreviewDen),
                     settings.stroke_rgba,
                     <<int_div(settings.shadow_offset[1] * k, PreviewDen),
                       int_div(settings.shadow_offset[2] * k, PreviewDen)>>,
                     settings.shadow_rgba, measure)
         IN  IF opacity < OpDen
             THEN [text_img EXCEPT !.px =
                      [p \in Coords(text_img.size) |->
                          <<text_img.px[p][1], text_img.px[p][2], text_img.px[p][3],
                            pil_brightness(text_img.px[p][4], opacity)>>]]
             ELSE text_img

\* text_settings: the text, the fill colour (the colour dialog sets alpha 255,
\* a loaded template any), no stroke or the default stroke, no shadow or the
\* default shadow
TextViewSettings ==
    {[text |-> t, font_size |-> 36, color_rgba |-> <<255, 255, 255, a>>,
      stroke_width |-> st[1], stroke_rgba |-> st[2],
      shadow_offset |-> sh[1], shadow_rgba |-> sh[2]] :
        t \in {<<>>, <<"A">>}, a \in {255, 128},
        st \in {<<0, None>>, <<2, <<0, 0, 0, 255>>>>},
        sh \in {<<<<0, 0>>, None>>, <<<<2, 2>>, <<128, 128, 128, 128>>>>}}

\* global_settings["opacity"]: the slider value / 100
TextViewOpacities == 0 .. OpDen

\* what draw.textbbox measures for the text at the export's font size, and
\* at a smaller preview font size
TextViewBoxes == {<<0, 2, 20, 12>>}

SmallTextViewBoxes == {<<0, 1, 10, 6>>, <<0, 1, 11, 7>>}

TextViewScaleFactors == {PreviewDen \div 2, PreviewDen}

InitTextOpacity ==
    /\ \E st \in TextViewSettings, o \in TextViewOpacities, k \in TextViewScaleFactors,
          m \in TextViewBoxes :
          \E pm \in (IF k = PreviewDen THEN {m} ELSE SmallTextViewBoxes) :
              text_view = [pc |-> "start", settings |-> st, opacity |-> o,
                           scale_factor |-> k, measure |-> m, preview_measure |-> pm,
                           export_canvas |-> None, preview_canvas |-> None,
                           previewed |-> FALSE]
    /\ PositionIdle
    /\ EngineIdle
    /\ OpacityIdle
    /\ job = None
    /\ batch = None
    /\ FontIdle
    /\ template_dir = None
    /\ kv = None
    /\ tcall = None
    /\ preview = None
    /\ GuiIdle

\* the export: apply_watermark renders the text watermark
ExportText ==
    /\ text_view.export_canvas = None
    /\ text_view' = [text_view EXCEPT
           !.pc = "exported",
           !.export_canvas = apply_watermark_text(text_view.settings, text_view.opacity,
                                                  text_view.measure)]
    /\ UNCHANGED OutsideTextView

\* the preview: _update_preview renders the text item
RenderTextPreview ==
    /\ ~text_view.previewed
    /\ text_view' = [text_view EXCEPT
           !.pc = "previewed",
           !.previewed = TRUE,
           !.preview_canvas = render_text_preview(text_view.settings, text_view.opacity,
                                  text_view.scale_factor, text_view.preview_measure)]
    /\ UNCHANGED OutsideTextView

NextTextOpacity == ExportText \/ RenderTextPreview

SpecTextOpacity == InitTextOpacity /\ [][NextTextOpacity]_vars

-----------------------------------------------------------------------------
(* SpecGui: the main window's handlers that read or write the manual offset *)

MaxGuiEvents == 5       \* at most MaxGuiEvents events are delivered

\* preview positions and manual offsets are floats: fractions <<n, d>>, d > 0,
\* in lowest terms
RECURSIVE gcd(_, _)
gcd(a, b) == IF b = 0 THEN a ELSE gcd(b, a % b)

rat(n, d) == IF n = 0 THEN <<0, 1>> ELSE <<n \div gcd(abs(n), d), d \div gcd(abs(n), d)>>

\* x / preview_scale_factor, preview_scale_factor = k / PreviewDen
div_scale_factor(x, k) == rat(x[1] * PreviewDen, x[2] * k)

\* x * preview_scale_factor
mul_scale_factor(x, k) == rat(x[1] * k, x[2] * PreviewDen)

\* the images of the list, by index: (width, height)
GuiImages == <<(<<PreviewDen * 100, PreviewDen * 50>>), (<<PreviewDen * 50, PreviewDen * 50>>)>>

\* self.view.viewport().size() as _update_preview finds it
Viewports == {<<100, 100>>, <<200, 200>>, <<PreviewDen * 100, PreviewDen * 100>>}

\* scale_factor = min(vw / W, vh / H, 1.0) with vw, vh at least 100,
\* as the numerator k of k / PreviewDen
fit_scale_factor(size, viewport) ==
    min(PreviewDen, min((max(100, viewport[1]) * PreviewDen) \div size[1],
                        (max(100, viewport[2]) * PreviewDen) \div size[2]))

\* the size of the text canvas _render_text_preview returns at factor k: the
\* canvas of the full-size text, 80 x 40, taken in proportion
text_item_size(k) == <<display_size(80, k), display_size(40, k)>>

\* _place_wm_item for the text item: the position as a pair of fractions
place_item(size, preset, manual, k) ==
    IF manual # None
    THEN <<mul_scale_factor(manual[1], k), mul_scale_factor(manual[2], k)>>
    ELSE LET at == place_wm_item(<<display_size(size[1], k), display_size(size[2], k)>>,
                                 text_item_size(k), preset, None, k)
         IN  <<rat(at[1], PlaceDen), rat(at[2], PlaceDen)>>

\* _update_preview with the viewport as found: nothing without a base image;
\* the scale factor is recomputed; a text watermark gets its item, an image
\* watermark without a chosen logo gets none
update_preview(g, viewport) ==
    IF g.base_img = 0
    THEN [g EXCEPT !.item_pos = None]
    ELSE LET k == fit_scale_factor(GuiImages[g.base_img], viewport)
         IN  [g EXCEPT !.preview_scale_factor = k,
                       !.item_pos = IF g.watermark_type = "text"
                                    THEN place_item(GuiImages[g.base_img], g.position_preset,
                                                    g.manual_pos_px, k)
                                    ELSE None,
                       !.movable = g.tab # 2]

\* the positions a drag can leave the item at (preview pixels)
DragPositions == {<<(<<3, 1>>), (<<5, 1>>)>>, <<(<<40, 1>>), (<<10, 1>>)>>}

GuiPresets == {"top_left", "center", "bottom_right"}

InitGui ==
    /\ gui = [base_img |-> 0, preview_scale_factor |-> PreviewDen, item_pos |-> None,
               movable |-> TRUE, tab |-> 0, watermark_type |-> "text",
               position_preset |-> "center", manual_pos_px |-> None,
               exported |-> None]
    /\ user = [drag |-> None, dragged |-> FALSE, rescaled |-> FALSE, events |-> 0]
    /\ PositionIdle
    /\ EngineIdle
    /\ OpacityIdle
    /\ job = None
    /\ batch = None
    /\ FontIdle
    /\ template_dir = None
    /\ kv = None
    /\ tcall = None
    /\ preview = None
    /\ text_view = None
    /\ TextCallIdle

\* one more event, within the bound
Event == user.events < MaxGuiEvents

\* a refresh re-places the item: a drag whose position was never recorded is gone
after_refresh(u) ==
    [u EXCEPT !.events = @ + 1,
              !.drag = IF @ # None /\ ~@.recorded THEN None ELSE @]

\* on_list_change(idx): the image is loaded and the preview refreshed
OnListChange ==
    \E idx \in 1 .. Len(GuiImages), viewport \in Viewports :
        /\ Event
        /\ gui' = update_preview([gui EXCEPT !.base_img = idx], viewport)
        /\ user' = after_refresh(user)
        /\ UNCHANGED OutsideGui

\* a handler that changes a setting and refreshes (on_text_changed, ...)
UpdatePreviewEvent ==
    \E viewport \in Viewports :
        /\ Event
        /\ gui' = update_preview(gui, viewport)
        /\ user' = after_refresh(user)
        /\ UNCHANGED OutsideGui

\* the user drags the movable item inside the view: the item moves
DragItem ==
    \E p \in DragPositions :
        /\ Event
        /\ gui.item_pos # None
        /\ gui.movable
        /\ gui' = [gui EXCEPT !.item_pos = p]
        /\ user' = [user EXCEPT !.events = @ + 1, !.dragged = TRUE,
                                 !.drag = [pos |-> p, scale_factor |-> gui.preview_scale_factor,
                                           recorded |-> FALSE]]
        /\ UNCHANGED OutsideGui

\* MainWindow.mouseReleaseEvent: with an item in the scene its position over
\* the scale factor becomes the manual offset
MouseReleaseEvent ==
    /\ Event
    /\ gui' = IF gui.item_pos # None /\ gui.base_img # 0
               THEN [gui EXCEPT !.manual_pos_px =
                        <<div_scale_factor(gui.item_pos[1], gui.preview_scale_factor),
                          div_scale_factor(gui.item_pos[2], gui.preview_scale_factor)>>]
               ELSE gui
    /\ user' = [user EXCEPT !.events = @ + 1,
                             !.drag = IF @ # None /\ gui.item_pos = @.pos
                                      THEN [@ EXCEPT !.recorded = TRUE] ELSE @]
    /\ UNCHANGED OutsideGui

\* on_font_style_changed: the item's position is read, the preview refreshed,
\* and with a manual offset set the position read is converted with the
\* scale factor of the refreshed preview and given back to the item
OnFontStyleChanged ==
    \E viewport \in Viewports :
        LET g0 == [gui EXCEPT !.watermark_type = "text"]
            had == gui.item_pos # None /\ gui.watermark_type = "text" /\ gui.base_img # 0
            current_visual_pos == gui.item_pos
            g1 == update_preview(g0, viewport)
        IN  /\ Event
            /\ gui' = IF had /\ g1.manual_pos_px # None /\ g1.item_pos # None
                       THEN [g1 EXCEPT
                                !.manual_pos_px =
                                    <<div_scale_factor(current_visual_pos[1], g1.preview_scale_factor),
                                      div_scale_factor(current_visual_pos[2], g1.preview_scale_factor)>>,
                                !.item_pos = current_visual_pos]
                       ELSE g1
            /\ user' = IF had /\ g1.manual_pos_px # None /\ g1.item_pos # None
                        THEN [user EXCEPT
                                 !.events = @ + 1,
                                 !.rescaled = @ \/ g1.preview_scale_factor # gui.preview_scale_factor]
                        ELSE after_refresh(user)
            /\ UNCHANGED OutsideGui

\* set_preset(key)
SetPreset ==
    \E key \in GuiPresets, viewport \in Viewports :
        /\ Event
        /\ gui' = update_preview([gui EXCEPT !.position_preset = key,
                                              !.manual_pos_px = None], viewport)
        /\ user' = [user EXCEPT !.events = @ + 1, !.drag = None, !.dragged = FALSE,
                                 !.rescaled = FALSE]
        /\ UNCHANGED OutsideGui

\* _on_tab_changed(idx): the layout tab only stops dragging; the text and image
\* tabs allow it and switch the watermark type
OnTabChanged ==
    \E idx \in 0 .. 2, viewport \in Viewports :
        LET new_type == IF idx = 0 THEN "text" ELSE "image"
            g0 == [gui EXCEPT !.tab = idx,
                              !.movable = IF gui.item_pos # None THEN idx # 2 ELSE @]
        IN  /\ Event
            /\ gui' = IF idx # 2 /\ new_type # gui.watermark_type
                       THEN update_preview([g0 EXCEPT !.watermark_type = new_type], viewport)
                       ELSE g0
            /\ user' = IF idx # 2 /\ new_type # gui.watermark_type
                        THEN after_refresh(user)
                        ELSE [user EXCEPT !.events = @ + 1]
            /\ UNCHANGED OutsideGui

\* batch_export: the settings handed to export_image for every image, and the
\* preview_scale_factor argument
BatchExport ==
    /\ Event
    /\ gui.base_img # 0
    /\ gui' = [gui EXCEPT !.exported =
                  [position_preset |-> IF gui.manual_pos_px = None THEN gui.position_preset
                                       ELSE NoneKey,
                   manual_pos_px |-> gui.manual_pos_px,
                   preview_scale_factor |-> None]]
    /\ user' = [user EXCEPT !.events = @ + 1]
    /\ UNCHANGED OutsideGui

NextGui ==
    \/ OnListChange
    \/ UpdatePreviewEvent
    \/ DragItem
    \/ MouseReleaseEvent
    \/ OnFontStyleChanged
    \/ SetPreset
    \/ OnTabChanged
    \/ BatchExport

SpecGui == InitGui /\ [][NextGui]_vars

-----------------------------------------------------------------------------
(* SpecText: compose_text_watermark, its canvas and the runs it draws *)

\* the text with the placeholder in place of empty or whitespace-only content,
\* left as it is
text_or_sample_kept(text) == text

\* if not text or not text.strip(): text = "Sample" (a missing text, None, is
\* the empty sequence here)
text_or_sample(text) == IF is_blank(text) THEN Sample ELSE text

\* the canvas side without the limits
canvas_side_unclamped(content, pad, least, most) == content + pad * 2

\* min(max(content + pad * 2, least), most)
canvas_side(content, pad, least, most) == min(max(content + pad * 2, least), most)

\* compose_text_watermark up to the canvas: the text, the clamped sizes, the
\* measured size, the padding, the canvas size and the text position
text_layout(text0, font_size0, stroke_width0, shadow_offset, measure) ==
    LET text == text_or_sample(text0)
        font_size == max(8, min(font_size0, 500))
        stroke_width == max(0, min(stroke_width0, 20))
        text_w == IF measure # None THEN max(1, measure[3] - measure[1])
                  ELSE (Len(text) * font_size) \div 2
        text_h == IF measure # None THEN max(1, measure[4] - measure[2])
                  ELSE font_size
        shadow_pad == IF shadow_offset # <<0, 0>>
                      THEN max(abs(shadow_offset[1]), abs(shadow_offset[2]))
                      ELSE 0
        pad == max(10, stroke_width + shadow_pad + 5)
        canvas_w == canvas_side(text_w, pad, 50, 2000)
        canvas_h == canvas_side(text_h, pad, 20, 1000)
    IN  [text |-> text, font_size |-> font_size, stroke_width |-> stroke_width,
         text_w |-> text_w, text_h |-> text_h, pad |-> pad,
         bbox |-> IF measure # None THEN measure ELSE <<0, 0, text_w, text_h>>,
         size |-> <<canvas_w, canvas_h>>,
         at |-> <<(canvas_w - text_w) \div 2, (canvas_h - text_h) \div 2>>]

\* the draw.text calls with the main run drawn first and the shadow over it
text_draws_main_first(layout, color_rgba, stroke_rgba, shadow_offset, shadow_rgba) ==
    LET safe_color_rgba == IF color_rgba # None THEN color_rgba ELSE <<255, 255, 255, 255>>
        stroked == layout.stroke_width > 0 /\ stroke_rgba # None
        main == [run |-> "main", text |-> layout.text, at |-> layout.at,
                 fill |-> safe_color_rgba,
                 stroke_width |-> IF stroked THEN layout.stroke_width ELSE 0,
                 stroke_fill |-> IF stroked THEN stroke_rgba ELSE safe_color_rgba]
    IN  IF shadow_rgba # None /\ shadow_offset # <<0, 0>>
        THEN << main,
                [run |-> "shadow", text |-> layout.text,
                 at |-> <<layout.at[1] + shadow_offset[1], layout.at[2] + shadow_offset[2]>>,
                 fill |-> shadow_rgba, stroke_width |-> layout.stroke_width,
                 stroke_fill |-> IF stroke_rgba = None THEN shadow_rgba ELSE stroke_rgba] >>
        ELSE << main >>

\* the draw.text calls of compose_text_watermark in the order they are made:
\* the shadow run when asked for, then the main run
text_draws(layout, color_rgba, stroke_rgba, shadow_offset, shadow_rgba) ==
    LET shadow ==
            IF shadow_rgba # None /\ shadow_offset # <<0, 0>>
            THEN << [run |-> "shadow", text |-> layout.text,
                     at |-> <<layout.at[1] + shadow_offset[1], layout.at[2] + shadow_offset[2]>>,
                     fill |-> shadow_rgba, stroke_width |-> layout.stroke_width,
                     stroke_fill |-> IF stroke_rgba = None THEN shadow_rgba ELSE stroke_rgba] >>
            ELSE << >>
        safe_color_rgba == IF color_rgba # None THEN color_rgba ELSE <<255, 255, 255, 255>>
        main ==
            IF layout.stroke_width > 0 /\ stroke_rgba # None
            THEN [run |-> "main", text |-> layout.text, at |-> layout.at,
                  fill |-> safe_color_rgba, stroke_width |-> layout.stroke_width,
                  stroke_fill |-> stroke_rgba]
            ELSE [run |-> "main", text |-> layout.text, at |-> layout.at,
                  fill |-> safe_color_rgba, stroke_width |-> 0,
                  stroke_fill |-> safe_color_rgba]
    IN  shadow \o << main >>

\* the box a run covers, stroke included: the run's text measures bbox at the
\* stroke width of the layout, and is drawn from its `at` with its own
ink_box(layout, draw) ==
    LET d == layout.stroke_width - draw.stroke_width
    IN  <<draw.at[1] + layout.bbox[1] + d, draw.at[2] + layout.bbox[2] + d,
          draw.at[1] + layout.bbox[3] - d, draw.at[2] + layout.bbox[4] - d>>

\* what draw.textbbox gives for glyphs whose ink box is g, with stroke width sw
stroked_box(g, sw) == <<g[1] - sw, g[2] - sw, g[3] + sw, g[4] + sw>>

\* glyph ink boxes (left, top, right, bottom) from the drawing origin: a small
\* font, the default size, a large font with its top bearing, an oversized text
GlyphBoxes == {<<0, 0, 20, 10>>, <<0, 4, 80, 31>>, <<1, 40, 300, 190>>, <<0, 50, 2500, 1200>>}

TextInputs == {<<>>, <<" ", " ">>, <<"A", "b">>}

TextFontSizes == {0, 36, 600}

StrokeWidths == {0, 2, 20, 25}

StrokeColours == {None, <<0, 0, 0, 255>>}

ShadowOffsets == {<<0, 0>>, <<2, 2>>, <<0 - 30, 4>>}

ShadowColours == {None, <<128, 128, 128, 128>>}

InitText ==
    /\ \E t \in TextInputs, fs \in TextFontSizes, sw \in StrokeWidths, sc \in StrokeColours,
          so \in ShadowOffsets, sh \in ShadowColours :
          \E m \in {None} \cup {stroked_box(g, max(0, min(sw, 20))) : g \in GlyphBoxes} :
              text_call = [pc |-> "start", text |-> t, font_size |-> fs,
                           color_rgba |-> <<255, 255, 255, 255>>,
                           stroke_width |-> sw, stroke_rgba |-> sc,
                           shadow_offset |-> so, shadow_rgba |-> sh, measure |-> m,
                           layout |-> None, draws |-> << >>]
    /\ PositionIdle
    /\ EngineIdle
    /\ OpacityIdle
    /\ job = None
    /\ batch = None
    /\ FontIdle
    /\ template_dir = None
    /\ kv = None
    /\ tcall = None
    /\ preview = None
    /\ text_view = None
    /\ gui = None
    /\ user = None
    /\ CliIdle

\* compose_text_watermark(...): the canvas is laid out and the runs are drawn
ComposeTextWatermark ==
    /\ text_call.pc = "start"
    /\ \E layout \in {text_layout(text_call.text, text_call.font_size, text_call.stroke_width,
                                    text_call.shadow_offset, text_call.measure)} :
          text_call' = [text_call EXCEPT
              !.pc = "returned",
              !.layout = layout,
              !.draws = text_draws(layout, text_call.color_rgba, text_call.stroke_rgba,
                                   text_call.shadow_offset, text_call.shadow_rgba)]
    /\ UNCHANGED OutsideTextCall

NextText == ComposeTextWatermark

SpecText == InitText /\ [][NextText]_vars

-----------------------------------------------------------------------------
(* SpecCli: compute_position of the command-line tool (src/watermark.py) *)

\* position.lower() of the names tried
lower(position) ==
    CASE position = "Top-Left" -> "top-left"
      [] position = "CENTER" -> "center"
      [] OTHER -> position

\* compute_position returning x, y as computed
compute_position_unclamped(image_size, text_size, position, m) ==
    LET img_w == image_size[1]
        img_h == image_size[2]
        text_w == text_size[1]
        text_h == text_size[2]
        name == lower(position)
    IN  CASE name = "top-left" -> <<m, m>>
          [] name = "top-center" -> <<(img_w - text_w) \div 2, m>>
          [] name = "top-right" -> <<img_w - text_w - m, m>>
          [] name = "center-left" -> <<m, (img_h - text_h) \div 2>>
          [] name \in {"center", "middle", "centre"} ->
                <<(img_w - text_w) \div 2, (img_h - text_h) \div 2>>
          [] name = "center-right" -> <<img_w - text_w - m, (img_h - text_h) \div 2>>
          [] name = "bottom-left" -> <<m, img_h - text_h - m>>
          [] name = "bottom-center" -> <<(img_w - text_w) \div 2, img_h - text_h - m>>
          [] name = "bottom-right" -> <<img_w - text_w - m, img_h - text_h - m>>
          [] OTHER -> <<img_w - text_w - m, img_h - text_h - m>>

\* compute_position: the if / elif chain over pos (// is floor division), then
\* return max(0, x), max(0, y)
compute_position(image_size, text_size, position, m) ==
    LET img_w == image_size[1]
        img_h == image_size[2]
        text_w == text_size[1]
        text_h == text_size[2]
        name == lower(position)
        xy == CASE name = "top-left" -> <<m, m>>
                [] name = "top-center" -> <<(img_w - text_w) \div 2, m>>
                [] name = "top-right" -> <<img_w - text_w - m, m>>
                [] name = "center-left" -> <<m, (img_h - text_h) \div 2>>
                [] name \in {"center", "middle", "centre"} ->
                      <<(img_w - text_w) \div 2, (img_h - text_h) \div 2>>
                [] name = "center-right" -> <<img_w - text_w - m, (img_h - text_h) \div 2>>
                [] name = "bottom-left" -> <<m, img_h - text_h - m>>
                [] name = "bottom-center" -> <<(img_w - text_w) \div 2, img_h - text_h - m>>
                [] name = "bottom-right" -> <<img_w - text_w - m, img_h - text_h - m>>
                [] OTHER -> <<img_w - text_w - m, img_h - text_h - m>>
    IN  <<max(0, xy[1]), max(0, xy[2])>>

\* the choices of --position
CliChoices ==
    {"top-left", "top-center", "top-right", "center-left", "center", "center-right",
     "bottom-left", "bottom-center", "bottom-right"}

\* the position strings compute_position is called with: the choices, two
\* spellings in capitals, the other names of the centre and a name it does not know
CliPositions == CliChoices \cup {"Top-Left", "CENTER", "middle", "centre", "nowhere"}

\* base.size and the measured (text_w, text_h)
CliImageSizes == (1 .. MaxBase) \X (1 .. MaxBase)

CliTextSizes == (1 .. MaxOverlay) \X (1 .. MaxOverlay)

\* --margin
CliMargins == 0 .. MaxMargin

InitCli ==
    /\ cli \in [pc : {"start"}, image_size : CliImageSizes, text_size : CliTextSizes,
                 position : CliPositions, margin : CliMargins, ret : {None}]
    /\ PositionIdle
    /\ EngineIdle
    /\ OpacityIdle
    /\ job = None
    /\ batch = None
    /\ FontIdle
    /\ template_dir = None
    /\ kv = None
    /\ tcall = None
    /\ preview = None
    /\ text_view = None
    /\ gui = None
    /\ user = None
    /\ text_call = None
    /\ LstIdle

\* x, y = compute_position(base.size, (text_w, text_h), options.position, options.margin_px)
ComputePosition ==
    /\ cli.pc = "start"
    /\ cli' = [cli EXCEPT !.pc = "done",
                           !.ret = compute_position(cli.image_size, cli.text_size,
                                                    cli.position, cli.margin)]
    /\ UNCHANGED OutsideCli

NextCli == ComputePosition

SpecCli == InitCli /\ [][NextCli]_vars

-----------------------------------------------------------------------------
(* SpecList: self.images against the rows of the list widget *)

MaxListImages == 3      \* self.images holds at most MaxListImages paths

\* what a path names when it is imported or opened: an image, a file with an
\* image extension that Image.open refuses, an image file cut short after its
\* header (Image.open succeeds, reading the pixels raises), a path that does
\* not exist, a file of another type, a folder
path_kind(p) ==
    CASE p \in {"a.jpg", "b.png"} -> "image"
      [] p = "bad.jpg" -> "refused"
      [] p = "cut.jpg" -> "truncated"
      [] p = "gone.jpg" -> "missing"
      [] p = "notes.txt" -> "other_type"
      [] OTHER -> "folder"

\* the paths a drop, the file dialog or os.walk hands to _add_paths
DroppedPaths == {"a.jpg", "b.png", "bad.jpg", "cut.jpg", "gone.jpg", "notes.txt", "pics"}

\* load_image_any(p) is not None
opens(p) == path_kind(p) \in {"image", "truncated"}

\* the lists of paths of one import
PathLists == UNION {[1 .. n -> DroppedPaths] : n \in 0 .. 2}

\* the file previewed by base_img, when there is none
NoFile == "none"

RECURSIVE add_paths_loop(_, _)
\* the for loop of _add_paths over the paths left: the three skips, then
\* self.images.append(p), and a row only when the image loads; img.copy() of
\* a file cut short raises and ends the handler
add_paths_loop(l, paths) ==
    IF paths = << >> THEN l
    ELSE LET p == Head(paths)
         IN  IF path_kind(p) \in {"missing", "folder", "other_type"}
             THEN add_paths_loop(l, Tail(paths))
             ELSE IF path_kind(p) = "refused"
             THEN add_paths_loop([l EXCEPT !.images = Append(@, p)], Tail(paths))
             ELSE IF path_kind(p) = "truncated"
             THEN [l EXCEPT !.images = Append(@, p), !.raised = TRUE]
             ELSE add_paths_loop([l EXCEPT !.images = Append(@, p), !.rows = Append(@, p),
                                           !.added = @ + 1], Tail(paths))

\* the loop of _add_paths from added = 0
add_paths(l, paths) ==
    add_paths_loop([images |-> l.images, rows |-> l.rows, added |-> 0, raised |-> FALSE], paths)

\* on_list_change(idx): current_index = idx, and when idx is an index of
\* self.images, base_img = load_image_any(self.images[idx])
on_list_change(l, idx) ==
    IF idx < 0 \/ idx >= Len(l.images)
    THEN [l EXCEPT !.current_index = idx]
    ELSE [l EXCEPT !.current_index = idx,
                   !.base_img = IF opens(l.images[idx + 1]) THEN l.images[idx + 1] ELSE NoFile]

\* the "images" and "current_index" of the dictionaries a template holds:
\* lists _collect_settings_dict saved, whose files may have gone since (none
\* of them is a file cut short)
SavedImageLists ==
    {[images |-> << >>, current_index |-> 0 - 1],
     [images |-> <<"a.jpg">>, current_index |-> 0],
     [images |-> <<"bad.jpg", "a.jpg">>, current_index |-> 1],
     [images |-> <<"a.jpg", "gone.jpg", "b.png">>, current_index |-> 2],
     [images |-> <<"b.png", "a.jpg">>, current_index |-> 0 - 1]}

\* the window after construction: no image, no row, nothing previewed
InitList ==
    /\ lst = [images |-> << >>, rows |-> << >>, current_index |-> 0 - 1,
              base_img |-> NoFile, clicked |-> 0 - 1]
    /\ PositionIdle
    /\ EngineIdle
    /\ OpacityIdle
    /\ job = None
    /\ batch = None
    /\ FontIdle
    /\ template_dir = None
    /\ kv = None
    /\ tcall = None
    /\ preview = None
    /\ text_view = None
    /\ gui = None
    /\ user = None
    /\ text_call = None
    /\ cli = None

\* dropEvent, add_files, add_dir: _add_paths(paths); setCurrentRow(0) emits
\* currentRowChanged, which runs on_list_change(0)
AddPaths ==
    \E paths \in PathLists :
        /\ Len(lst.images) + Len(paths) <= MaxListImages
        /\ \E r \in {add_paths(lst, paths)} :
              \E l \in {[lst EXCEPT !.images = r.images, !.rows = r.rows, !.clicked = 0 - 1]} :
                 lst' = IF ~r.raised /\ r.added > 0 /\ lst.current_index < 0
                        THEN on_list_change(l, 0)
                        ELSE l
        /\ UNCHANGED OutsideLst

\* the user selects a row of the list widget: currentRowChanged(row)
SelectRow ==
    /\ \E row \in 0 .. (Len(lst.rows) - 1) :
          lst' = [on_list_change(lst, row) EXCEPT !.clicked = row]
    /\ UNCHANGED OutsideLst

\* load_template: _apply_settings_dict(d); the rows are rebuilt from the
\* images that load, and setCurrentRow(current_index) selects the row when
\* the widget has it
ApplySettingsDict ==
    /\ \E d \in SavedImageLists :
          /\ Len(d.images) <= MaxListImages
          /\ \E l \in {[lst EXCEPT !.images = d.images,
                                    !.rows = SelectSeq(d.images, opens),
                                    !.current_index = d.current_index,
                                    !.clicked = 0 - 1]} :
                lst' = IF d.current_index >= 0 /\ d.current_index < Len(d.images)
                          /\ d.current_index < Len(l.rows)
                       THEN on_list_change(l, d.current_index)
                       ELSE l
    /\ UNCHANGED OutsideLst

NextList == AddPaths \/ SelectRow \/ ApplySettingsDict

SpecList == InitList /\ [][NextList]_vars

-----------------------------------------------------------------------------
(* Properties of the position resolver *)

\* the overlay fits between the two margins of one axis
Fits(b, o, m) == o <= b - 2 * m

\* [x, x + o] lies in the margin band [m, b - m]
InBand(x, b, o, m) == m <= x /\ x + o <= b - m

\* C1: with no manual offset, for each of the nine presets, an overlay that
\* fits between the margins on both axes is placed with its whole bounding box
\* inside the margin band [margin, base - margin] on both axes.
C1_PresetInsideBand ==
    (/\ ppc = "resolved"
     /\ manual_pos_px = None
     /\ preset_key \in PresetNames
     /\ Fits(base_size[1], overlay_size[1], margin[1])
     /\ Fits(base_size[2], overlay_size[2], margin[2]))
    => /\ InBand(pos[1], base_size[1], overlay_size[1], margin[1])
       /\ InBand(pos[2], base_size[2], overlay_size[2], margin[2])

C1_Witness ==
    /\ ppc = "resolved"
    /\ manual_pos_px = None
    /\ preset_key = "bottom_right"
    /\ base_size = <<3, 3>>
    /\ overlay_size = <<1, 1>>
    /\ margin = <<1, 1>>
    /\ pos = <<1, 1>>

\* the interval the manual offset is clamped to, one axis
ClampLo(b, o, m) == m

ClampHi(b, o, m) == IF b - o - m > 0 THEN b - o - m ELSE 0

\* C2 as stated: with a manual offset the returned coordinate lies in
\* [m, max(0, b - o - m)] on each axis and the overlay never extends past the
\* margin band, whatever the overlay size.
C2_Original ==
    (ppc = "resolved" /\ manual_pos_px # None)
    => \A i \in 1..2 :
         /\ ClampLo(base_size[i], overlay_size[i], margin[i]) <= pos[i]
         /\ pos[i] <= ClampHi(base_size[i], overlay_size[i], margin[i])
         /\ pos[i] + overlay_size[i] <= base_size[i] - margin[i]

\* C2 (amended): with a manual offset the returned coordinate is never below
\* the margin; it lies in [m, max(0, b - o - m)] when that interval is not
\* empty and equals the margin m when it is empty; the overlay stays inside
\* the margin band when it fits between the two margins.
C2_ManualClamped ==
    (ppc = "resolved" /\ manual_pos_px # None)
    => \A i \in 1..2 :
         LET lo == ClampLo(base_size[i], overlay_size[i], margin[i])
             hi == ClampHi(base_size[i], overlay_size[i], margin[i])
         IN  /\ lo <= pos[i]
             /\ lo <= hi => pos[i] <= hi
             /\ lo > hi => pos[i] = lo
             /\ Fits(base_size[i], overlay_size[i], margin[i])
                  => InBand(pos[i], base_size[i], overlay_size[i], margin[i])

\* a drag beyond the far edge, clamped back to the far edge minus the margin
C2_Witness ==
    /\ ppc = "resolved"
    /\ manual_pos_px = <<5, 0 - 2>>
    /\ base_size = <<3, 3>>
    /\ overlay_size = <<1, 1>>
    /\ margin = <<1, 0>>
    /\ pos = <<1, 0>>

\* C3: clamping a manual offset is idempotent: calc_position applied to the
\* position it returned gives that position again, also when the lower bound
\* of the clamp exceeds the upper bound.
C3_ClampIdempotent == ppc = "reclamped" => pos2 = pos

\* lower bound above the upper bound on x, offset left of the image
C3_Witness ==
    /\ ppc = "reclamped"
    /\ margin[1] > ClampHi(base_size[1], overlay_size[1], margin[1])
    /\ manual_pos_px[1] < 0
    /\ pos2 = pos

\* C4: a manual offset overrides the preset: whenever manual_pos_px is not
\* None the resolved position is the same for every preset key (the nine
\* names, an unknown name, None).
C4_ManualOverridesPreset ==
    (ppc = "resolved" /\ manual_pos_px # None)
    => \A k \in PresetKeys :
         calc_position(base_size, overlay_size, k, manual_pos_px, margin) = pos

\* the offset (0, 0) with a preset that alone would resolve elsewhere
C4_Witness ==
    /\ ppc = "resolved"
    /\ manual_pos_px = <<0, 0>>
    /\ preset_key = "bottom_right"
    /\ base_size = <<3, 3>>
    /\ overlay_size = <<1, 1>>
    /\ margin = <<0, 0>>
    /\ pos = <<0, 0>>

LeftKeys == {"top_left", "center_left", "bottom_left"}

RightKeys == {"top_right", "center_right", "bottom_right"}

TopKeys == {"top_left", "top_center", "top_right"}

BottomKeys == {"bottom_left", "bottom_center", "bottom_right"}

\* t is d / 2 truncated toward zero
IsHalfTruncated(t, d) ==
    /\ d >= 0 => (2 * t <= d /\ d < 2 * t + 2)
    /\ d < 0 => (2 * t >= d /\ d > 2 * t - 2)

\* the coordinate an axis resolves to for near / far / centred placement
AxisResolved(x, near, far, b, o, m) ==
    /\ near => x = m
    /\ far => x = b - o - m
    /\ (~near /\ ~far) => IsHalfTruncated(x, b - o)

\* C5: with no manual offset each axis resolves independently from the preset
\* name: left/top gives the margin, right/bottom gives base - overlay - margin,
\* centre gives (base - overlay) / 2 truncated toward zero; a key that is None
\* or not one of the nine names resolves as "center".
C5_PresetAxes ==
    (ppc = "resolved" /\ manual_pos_px = None)
    => /\ AxisResolved(pos[1], preset_key \in LeftKeys, preset_key \in RightKeys,
                       base_size[1], overlay_size[1], margin[1])
       /\ AxisResolved(pos[2], preset_key \in TopKeys, preset_key \in BottomKeys,
                       base_size[2], overlay_size[2], margin[2])

\* an unknown key, the overlay one pixel wider than the base: centre truncates to 0
C5_Witness ==
    /\ ppc = "resolved"
    /\ manual_pos_px = None
    /\ preset_key = "unknown"
    /\ base_size = <<2, 3>>
    /\ overlay_size = <<3, 1>>
    /\ margin = <<1, 1>>
    /\ pos = <<0, 1>>

-----------------------------------------------------------------------------
(* Properties of the compositor and the export pipeline *)

EngineCall == call.fn \in {"apply_watermark", "export_image"}

\* the base image as the engine's RGBA working copy shows it
BaseRgba == convert(base0, "RGBA")

\* the image the call returned
Result == heap[ret]

\* the watermark file of an image-watermark call
WmSource == files[call.settings.wm_image_path]

\* the image watermark before opacity and rotation: the file, scaled
WmScaled == resize(WmSource, scaled_size(WmSource.size, min_scale(call.settings.wm_scale)))

\* the position the call has to resolve for a watermark of size ws
ResolvedFor(ws) ==
    calc_position(base0.size, ws, call.settings.position_preset,
                  scaled_manual(call.settings.manual_pos_px, call.preview_scale_factor),
                  call.settings.margin)

\* the box of size ws at position at lies inside the base image
BoxInside(at, ws) ==
    /\ at[1] >= 0
    /\ at[2] >= 0
    /\ at[1] + ws[1] <= base0.size[1]
    /\ at[2] + ws[2] <= base0.size[2]

\* the returned image is the base with wm blended over it at position at:
\* the base pixel outside the box of wm, wm over the base pixel inside it
BlendedAt(wm, at) ==
    /\ Result.mode = "RGBA"
    /\ Result.size = base0.size
    /\ DOMAIN Result.px = Coords(base0.size)
    /\ \A p \in Coords(base0.size) :
          LET q == <<p[1] - at[1], p[2] - at[2]>>
          IN  IF q \in Coords(wm.size)
              THEN Result.px[p] = Over(wm.px[q], BaseRgba.px[p])
              ELSE Result.px[p] = BaseRgba.px[p]

\* an image watermark used as it is in the file: scale 1.0, opacity 1.0, no rotation
PlainImageCall ==
    /\ EngineCall
    /\ ~composite.early
    /\ call.settings.type = "image"
    /\ call.settings.opacity = OpDen
    /\ call.settings.rotation_deg = 0

C7_BaseNotMutated ==
    EngineCall
    => /\ heap[base_img] = base0
       /\ ret \in DOMAIN heap
       /\ ret # base_img

\* the early return on a missing file, the base already in RGBA
C7_Witness ==
    /\ call.fn = "apply_watermark"
    /\ call.settings.type = "image"
    /\ call.settings.wm_image_path = "gone.png"
    /\ composite.early
    /\ base0.mode = "RGBA"
    /\ ret # base_img
    /\ Result = base0

\* the box of size ws at position at leaves the base image on some side
Clipped(at, ws) == ~BoxInside(at, ws)

\* the image watermark as the call prepared it: scaled, alpha scaled by the
\* opacity, turned
WmPrepared ==
    LET wm == compose_image_watermark(convert(WmSource, "RGBA"), call.settings.wm_scale,
                                      clamp(call.settings.opacity, 0, OpDen))
    IN  IF call.settings.rotation_deg % 360 = 0 THEN wm
        ELSE rotate(wm, call.settings.rotation_deg)

\* the returned image has the base's size and the base's pixels outside the
\* box of size ws at position at
FramedAt(at, ws) ==
    /\ Result.mode = "RGBA"
    /\ Result.size = base0.size
    /\ DOMAIN Result.px = Coords(base0.size)
    /\ \A p \in Coords(base0.size) :
          <<p[1] - at[1], p[2] - at[2]>> \notin Coords(ws) => Result.px[p] = BaseRgba.px[p]

\* C8: compositing clips: for every resolved position at which part of the
\* watermark lies outside the canvas (a watermark larger than the base, a
\* negative coordinate) apply_watermark returns an image of the base's size
\* with the base's pixels outside the watermark's box and, for an image
\* watermark, the visible part of the watermark blended over the base.
C8_CompositeClips ==
    (/\ call.fn = "apply_watermark"
     /\ ~composite.early
     /\ Clipped(composite.pos, composite.wm))
    => /\ FramedAt(composite.pos, composite.wm)
       /\ call.settings.type = "image"
            => /\ composite.wm = WmPrepared.size
               /\ composite.pos = ResolvedFor(WmPrepared.size)
               /\ BlendedAt(WmPrepared, composite.pos)

\* a watermark wider than the base at a negative x, partly visible
C8_Witness ==
    /\ PlainImageCall
    /\ call.fn = "apply_watermark"
    /\ composite.wm[1] > base0.size[1]
    /\ composite.pos[1] < 0
    /\ composite.pos[1] + composite.wm[1] > 0
    /\ Result.size = base0.size
    /\ Result.px[<<0, 0>>] # BaseRgba.px[<<0, 0>>]

\* C10: rotation by a whole number of turns is the identity:
\* rotate_image_rgba returns the input image itself, size and pixels
\* unchanged, and apply_watermark resolves the position from the size of the
\* unrotated watermark.
C10_WholeTurnIdentity ==
    /\ (call.fn = "rotate_image_rgba" /\ call.angle % 360 = 0)
        => (ret = base_img /\ heap[ret] = base0)
    /\ (EngineCall /\ ~composite.early /\ call.settings.rotation_deg % 360 = 0)
        => (composite.wm = composite.wm0 /\ composite.pos = ResolvedFor(composite.wm0))

\* a full turn backwards
C10_Witness ==
    /\ call.fn = "rotate_image_rgba"
    /\ call.angle = 0 - 360
    /\ ret = base_img
    /\ heap[ret] = base0

\* an export_image call that composited a watermark
ExportCall == call.fn = "export_image" /\ ~composite.early

\* the size apply_resize gives an image of the base's size for the call's percent
ExportSize == scaled_size(base0.size, min_scale(call.resize["percent"]))

\* the image watermark of the call blended over the whole base at the position
\* the call resolved
ComposedFirst == alpha_composite(BaseRgba, WmPrepared, composite.pos)

\* C22: export_image composites before it resizes: the watermark is positioned
\* against the size of the original base image and composited onto it, the
\* resize is applied afterwards to the composed image, only when the resize
\* options are non-empty; the position is never resolved against the resized
\* dimensions.
C22_CompositeBeforeResize ==
    ExportCall =>
        /\ composite.pos = ResolvedFor(composite.wm)
        /\ DOMAIN call.resize = {} => Result.size = base0.size
        /\ DOMAIN call.resize # {} => Result.size = ExportSize
        /\ call.settings.type = "image" =>
               Result = IF DOMAIN call.resize # {}
                        THEN resize(ComposedFirst, ExportSize)
                        ELSE ComposedFirst

\* a 3 x 2 base exported at 50 percent with the watermark at the bottom right:
\* the position is the one of the 3 x 2 base, not of the 1 x 1 result
C22_Witness ==
    /\ ExportCall
    /\ call.settings.type = "image"
    /\ DOMAIN call.resize # {}
    /\ base0.size = <<3, 2>>
    /\ Result.size = <<1, 1>>
    /\ call.settings.position_preset = "bottom_right"
    /\ call.settings.manual_pos_px = None
    /\ composite.pos # calc_position(Result.size, composite.wm, call.settings.position_preset,
                                      None, call.settings.margin)

-----------------------------------------------------------------------------
(* Properties of apply_resize *)

\* key k was given in the resize request of the call
Given(k) == k \in DOMAIN call.resize

\* trunc(n * num / den), at least 1
ScaledAxis(n, num, den) == max(1, int_div(n * num, den))

\* percent raised to at least 0.01, as <<numerator, denominator>>
RaisedPercent == IF 100 * call.resize["percent"] < ScaleDen THEN <<1, 100>>
                 ELSE <<call.resize["percent"], ScaleDen>>

\* the output size the resize rules name for the request of the call
RequestedSize ==
    LET W == base0.size[1]
        H == base0.size[2]
    IN  IF Given("percent")
        THEN <<ScaledAxis(W, RaisedPercent[1], RaisedPercent[2]),
               ScaledAxis(H, RaisedPercent[1], RaisedPercent[2])>>
        ELSE IF Given("width") /\ Given("height")
        THEN <<call.resize["width"], call.resize["height"]>>
        ELSE IF Given("width")
        THEN <<call.resize["width"], ScaledAxis(H, call.resize["width"], W)>>
        ELSE IF Given("height")
        THEN <<ScaledAxis(W, call.resize["height"], H), call.resize["height"]>>
        ELSE <<W, H>>

\* C11: apply_resize returns an image of the size the rules name: percent,
\* when present, before width and height and raised to at least 0.01; width
\* and height; one of them with the other axis keeping the aspect ratio; the
\* input's size when nothing is given.
C11_ResizeSize ==
    call.fn = "apply_resize" => Result.size = RequestedSize

\* C11 for every request but percent = 0, which the code treats as absent
C11_ResizeSizeNonZeroPercent ==
    (call.fn = "apply_resize" /\ ~(Given("percent") /\ call.resize["percent"] = 0))
    => Result.size = RequestedSize

\* percent 0 next to a width: the width decides, percent does not
C11_Witness ==
    /\ call.fn = "apply_resize"
    /\ call.resize = resize_dict({2}, {}, {0})
    /\ base0.size = <<3, 2>>
    /\ Result.size = <<2, 1>>
    /\ RequestedSize = <<1, 1>>

\* the settings of the call with every number moved to the nearest value of its range
ClampedSettings ==
    [call.settings EXCEPT !.opacity = clamp(@, 0, OpDen),
                          !.font_size = clamp(@, 8, 500),
                          !.stroke_width = clamp(@, 0, 20)]

\* what apply_watermark returns for the base image with the clamped settings
ClampedResult ==
    then(apply_watermark((1 :> base0), files, 1, ClampedSettings, call.measure,
                         call.preview_scale_factor),
         LAMBDA r : [image |-> r.heap[r.ret], wm0 |-> r.wm0])

\* a size with no axis below one pixel
NonEmpty(size) == size[1] >= 1 /\ size[2] >= 1

\* C16 for apply_watermark: out-of-range opacity, font size and stroke width
\* give what their clamped values give, a scale below 0.01 gives the
\* watermark scaled by 0.01, at least 1 x 1, and no image is empty
WatermarkInputsClamped ==
    (call.fn = "apply_watermark" /\ ~composite.early)
    => /\ NonEmpty(composite.wm0)
       /\ NonEmpty(Result.size)
       /\ call.settings # ClampedSettings
            => (Result = ClampedResult.image /\ composite.wm0 = ClampedResult.wm0)
       /\ (call.settings.type = "image" /\ 100 * call.settings.wm_scale < ScaleDen)
            => composite.wm0 = <<ScaledAxis(WmSource.size[1], 1, 100),
                                 ScaledAxis(WmSource.size[2], 1, 100)>>

\* C16 for apply_resize: a percent that is given is used, raised to 0.01, and
\* the output is not empty
PercentClamped ==
    (call.fn = "apply_resize" /\ Given("percent"))
    => /\ NonEmpty(Result.size)
       /\ Result.size = <<ScaledAxis(base0.size[1], RaisedPercent[1], RaisedPercent[2]),
                          ScaledAxis(base0.size[2], RaisedPercent[1], RaisedPercent[2])>>

\* C16: every value of opacity, font size, stroke width, watermark scale and
\* resize percent is clamped into its range (opacity [0, 1], font size
\* [8, 500], stroke width [0, 20], scale and percent at least 0.01) and none
\* gives an empty image.
C16_InputsClamped == WatermarkInputsClamped /\ PercentClamped

\* C16 without resize percent 0: every other out-of-range value is clamped,
\* and no value, percent 0 included, gives an empty image
C16_InputsClampedButZeroPercent ==
    /\ WatermarkInputsClamped
    /\ call.fn = "apply_resize" => NonEmpty(Result.size)
    /\ (Given("percent") /\ call.resize["percent"] # 0) => PercentClamped

\* percent 0 alone: the image comes back at its own size, not at one hundredth
C16_Witness ==
    /\ call.fn = "apply_resize"
    /\ call.resize = resize_dict({}, {}, {0})
    /\ base0.size = <<3, 2>>
    /\ Result.size = <<3, 2>>
    /\ ret = base_img

-----------------------------------------------------------------------------
(* Properties of the image-watermark preparer *)

\* the alpha channel of an image
Alpha(img) == [p \in Coords(img.size) |-> img.px[p][4]]

\* C9: opacity scaling of the alpha channel is monotonic and exact at 1: for
\* opacities o1 < o2 in [0, 1] every alpha value prepared with o1 is at most
\* the value prepared with o2, and with opacity 1.0 the prepared watermark
\* has the alpha channel of the watermark it was made from.
C9_OpacityMonotonic ==
    /\ (opc = "second" /\ opacity1 < opacity2)
        => \A p \in Coords(wm_img.size) : Alpha(prepared1)[p] <= Alpha(prepared2)[p]
    /\ (opc \in {"first", "second"} /\ opacity1 = OpDen)
        => /\ Alpha(prepared1) = Alpha(wm_img)
           /\ \A p \in Coords(wm_img.size) :
                 enhance_lut(Alpha(wm_img)[p], opacity1) = Alpha(wm_img)[p]

\* alpha 255 at opacities 1/4 and 1: 63 and 255
C9_Witness ==
    /\ opc = "second"
    /\ opacity1 = 1
    /\ opacity2 = OpDen
    /\ Alpha(wm_img)[<<0, 0>>] = 255
    /\ Alpha(prepared1)[<<0, 0>>] = 63
    /\ Alpha(prepared2)[<<0, 0>>] = 255

-----------------------------------------------------------------------------
(* Properties of batch_export *)

\* the directories that hold a source image
SourceDirectories == {directory_of(dirname(job.images[k])) : k \in DOMAIN job.images}

\* the output directory is spelled like the directory of an imported image
SpelledLikeSource == \E k \in DOMAIN job.images : dirname(job.images[k]) = job.out_dir

\* batch_export has loaded no image and written no file
NothingDone == batch.loaded = {} /\ batch.written = {} /\ batch.log = <<>>

\* C12: batch_export processes no image and writes no file when no output
\* directory was chosen or the output directory is the directory of an
\* imported image, and so no file is ever written into a directory that holds
\* a source image.
C12_NeverNextToSource ==
    /\ (job.out_dir = NoneKey \/ SpelledLikeSource) => NothingDone
    /\ \A w \in batch.written : directory_of(w.dir) \notin SourceDirectories

\* C12 for the spelling of the directories: rejected before the first image
\* is loaded when the two strings are equal, and no file is written under a
\* directory string that is the dirname of a source path
C12_RejectsEqualSpelling ==
    /\ (job.out_dir = NoneKey \/ SpelledLikeSource) => NothingDone
    /\ \A w \in batch.written : \A k \in DOMAIN job.images : w.dir # dirname(job.images[k])

\* a.png of the imported subfolder overwritten by the export into that subfolder
C12_Witness ==
    /\ batch.pc = "done"
    /\ job.out_dir = "C:/pics/sub"
    /\ job.format = "PNG"
    /\ job.name_rule = "keep"
    /\ \E k \in DOMAIN job.images, w \in batch.written :
          /\ directory_of(dirname(job.images[k])) = directory_of(w.dir)
          /\ job.images[k].name = w.name
          /\ job.images[k].ext = w.ext

\* the loop has had a turn for every image of the list
ReachedEveryImage ==
    /\ Len(batch.log) = Len(job.images)
    /\ \A k \in DOMAIN batch.log : batch.log[k].index = k

\* C13: an unloadable base image or watermark image affects its item only:
\* no failure leaves batch_export as an error, and a batch that was started
\* reaches every image of the list.
C13_UnloadableIsLocal ==
    /\ batch.pc # "raised"
    /\ batch.pc = "done" => ReachedEveryImage

\* C13 for the files Image.open refuses or that are absent: the base image
\* is skipped, the watermark is left out, and the loop goes on
C13_MissingIsLocal ==
    (\A k \in DOMAIN job.images : source_kind(job.images[k]) # "truncated")
    /\ job.watermark # "image_corrupt"
    => C13_UnloadableIsLocal

\* the batch ended by the exception of its first item, the second never loaded
C13_Witness ==
    /\ batch.pc = "raised"
    /\ Len(job.images) = 2
    /\ job.watermark = "image_corrupt"
    /\ source_kind(job.images[1]) = "ok"
    /\ source_kind(job.images[2]) = "ok"
    /\ batch.loaded = {1}
    /\ batch.written = {}

\* the turns of the loop that saved a file
SavedTurns == {k \in DOMAIN batch.log : batch.log[k].outcome = "saved"}

\* the images of the list are files different from each other
DifferentSources ==
    \A j, k \in DOMAIN job.images : j # k => job.images[j] # job.images[k]

\* C29: outputs of one batch do not overwrite each other: two different
\* source images never get the same output path, so the number of distinct
\* files written equals the count reported at the end.
C29_NoOverwrite ==
    /\ \A j, k \in SavedTurns :
          job.images[j] # job.images[k] => batch.log[j].out_path # batch.log[k].out_path
    /\ (batch.pc = "done" /\ DifferentSources) => Cardinality(batch.written) = batch.count

\* the stems of the images of the list differ from each other
DifferentStems ==
    \A j, k \in DOMAIN job.images : j # k => job.images[j].name # job.images[k].name

\* what holds in place of C29: a batch over images whose stems differ writes
\* as many files as it reports
C29_NoOverwriteDifferentStems ==
    DifferentStems =>
        /\ \A j, k \in SavedTurns : j # k => batch.log[j].out_path # batch.log[k].out_path
        /\ batch.pc = "done" => Cardinality(batch.written) = batch.count

\* a.jpg and sub/a.png both saved as a.png of the output folder: two reported, one file
C29_Witness ==
    /\ batch.pc = "done"
    /\ DifferentSources
    /\ batch.count = 2
    /\ Cardinality(batch.written) = 1

\* the turns of the loop that ended with the given outcome
Turns_with(outcome) == {k \in DOMAIN batch.log : batch.log[k].outcome = outcome}

\* C14: a failed save is local to its item and is not counted: the loop goes
\* on to the next image after it, and the count reported at the end is the
\* number of images whose save succeeded.
C14_SaveFailureIsLocal ==
    /\ batch.count = Cardinality(Turns_with("saved"))
    /\ \A k \in Turns_with("save_failed") :
          /\ batch.pc \in {"loop", "done", "raised"}
          /\ batch.i > k
          /\ k < Len(batch.log) => batch.log[k + 1].index = k + 1
    /\ (batch.pc = "done" /\ Turns_with("raised") = {}) => ReachedEveryImage

\* the first save failed, the second succeeded, one image reported
C14_Witness ==
    /\ batch.pc = "done"
    /\ Len(job.images) = 2
    /\ batch.log[1].outcome = "save_failed"
    /\ batch.log[2].outcome = "saved"
    /\ batch.count = 1

\* C17: with format JPEG the image handed to the encoder is in RGB mode and
\* has the size of the image export_image returned; with format PNG it is the
\* RGBA image export_image returned, alpha channel included.
C17_JpegHasNoAlpha ==
    \A k \in Turns_with("saved") \cup Turns_with("save_failed") :
        LET e == batch.log[k]
        IN  /\ e.export.mode = "RGBA"
            /\ job.format = "JPEG" =>
                  /\ e.encoded.mode = "RGB"
                  /\ e.encoded.size = e.export.size
                  /\ \A q \in Coords(e.encoded.size) : Len(e.encoded.px[q]) = 3
            /\ job.format = "PNG" => e.encoded = e.export

\* a JPEG export of the RGBA source b.png resized to a half
C17_Witness ==
    /\ job.format = "JPEG"
    /\ DOMAIN job.resize # {}
    /\ \E k \in Turns_with("saved") :
          /\ job.images[k].ext = ".png"
          /\ batch.log[k].export.size = <<1, 1>>
          /\ batch.log[k].export.mode = "RGBA"
          /\ batch.log[k].encoded.mode = "RGB"
          /\ batch.log[k].encoded.size = <<1, 1>>

-----------------------------------------------------------------------------
(* Properties of load_font *)

\* the file of the family's regular variant, as a candidate
RegularOfFamily ==
    LET path == font_files[font_call.font_family][1]
    IN  <<path, IF is_ttc(path) THEN 0 ELSE NoIndex>>

\* the exact variant of the family, as a candidate
ExactOfFamily ==
    LET path == font_files[font_call.font_family][variant(font_call.bold, font_call.italic)]
    IN  <<path, IF is_ttc(path) THEN face_index(font_call.bold, font_call.italic) ELSE NoIndex>>

\* the fixed fallback fonts in the order they are tried
FixedFallbacks ==
    <<(<<Helvetica_ttc, 0>>), (<<Times_ttc, 0>>), (<<Arial_ttf, NoIndex>>),
      (<<Helvetica_ttc, NoIndex>>), (<<System_Arial_ttf, NoIndex>>), (<<Times_ttc, NoIndex>>)>>

\* the returned font is the candidate c
ReturnedCandidate(c) == font_call.font.path = c[1] /\ font_call.font.index = c[2]

\* the returned font is the first of the candidates that loads, the built-in
\* default font when none does
FirstThatLoads(candidates) ==
    /\ \A k \in DOMAIN candidates :
          (loads(font_disk, candidates[k])
           /\ \A j \in 1 .. (k - 1) : ~loads(font_disk, candidates[j]))
          => ReturnedCandidate(candidates[k])
    /\ (\A k \in DOMAIN candidates : ~loads(font_disk, candidates[k]))
          => font_call.font.path = "default"

\* load_font returned a font: one that loads at a size in 8..500, or the default
UsableFont ==
    /\ font_call.font # None
    /\ \/ font_call.font.path = "default"
       \/ /\ loads(font_disk, <<font_call.font.path, font_call.font.index>>)
          /\ font_call.font.size \in 8 .. 500

\* C15: load_font always returns a usable font, the first that loads in the
\* order: exact variant of the family, regular variant of the family, the
\* fixed fallback fonts, the built-in default font.
C15_FontOrder ==
    font_call.pc = "returned"
    => /\ UsableFont
       /\ FirstThatLoads((IF font_call.font_family \in DOMAIN font_files
                           THEN <<ExactOfFamily, RegularOfFamily>> ELSE <<>>)
                          \o FixedFallbacks)

\* C15 without the regular variant: after the exact variant of the family
\* come the fixed fallback fonts, then the built-in default font
C15_FontOrderAsCoded ==
    font_call.pc = "returned"
    => /\ UsableFont
       /\ FirstThatLoads((IF font_call.font_family \in DOMAIN font_files
                           THEN <<ExactOfFamily>> ELSE <<>>)
                          \o FixedFallbacks)

\* Arial bold without its bold file: Helvetica is returned although Arial.ttf loads
C15_Witness ==
    /\ font_call.pc = "returned"
    /\ font_call.font_family = "Arial"
    /\ font_call.bold
    /\ ~font_call.italic
    /\ ~loads(font_disk, ExactOfFamily)
    /\ loads(font_disk, RegularOfFamily)
    /\ font_call.font.path = Helvetica_ttc
    /\ font_call.font.index = 0

-----------------------------------------------------------------------------
(* Properties of the template storage *)

\* the names whose last save or successful delete is known
KnownNames == DOMAIN kv

\* the template directory answers the last call as the key-value store does:
\* load_template(n) returns the value last saved under n, None after a
\* successful delete; list_templates() contains every name holding a value
AnswersAsStore ==
    /\ (tcall.op = "load" /\ tcall.name \in KnownNames) => tcall.ret = kv[tcall.name]
    /\ tcall.op = "list" => \A n \in KnownNames : kv[n] # None => n \in tcall.ret

\* C18: the template storage is a key-value store keyed by name: after
\* save_template(n, s), with saves and deletes under other names in between,
\* load_template(n) returns s and list_templates() contains n; after
\* delete_template(n) returned True load_template(n) returns None.
C18_KeyValueStore == AnswersAsStore

\* C18 for names made of letters, digits, "_", "-" and "." only and settings
\* holding no tuples
C18_KeyValueStorePlainNames == tcall.plain => AnswersAsStore

\* saved under "a b", loaded under "a b": nothing comes back
C18_Witness ==
    /\ tcall.op = "load"
    /\ tcall.name = <<"a", " ", "b">>
    /\ tcall.name \in KnownNames
    /\ kv[tcall.name] # None
    /\ tcall.ret = None
    /\ <<"a", "b">> \in DOMAIN template_dir

-----------------------------------------------------------------------------
(* Properties of the preview placement *)

\* the preview placed its item and the export resolved its position
PlacedAndExported == preview.item_pos # None /\ preview.export_pos # None

abs_diff(a, b) == IF a >= b THEN a - b ELSE b - a

\* the item is within n preview pixels of the export position times the factor
Within(n) ==
    LET e == times_scale_factor(preview.export_pos, preview.scale_factor)
    IN  /\ abs_diff(preview.item_pos[1], e[1]) <= n * PlaceDen
        /\ abs_diff(preview.item_pos[2], e[2]) <= n * PlaceDen

PresetPlacement == PlacedAndExported /\ preview.manual_pos_px = None

\* the presets _place_wm_item tells apart
PlacedPresets == {"top_left", "top_right", "bottom_left", "bottom_right", "center"}

\* C19: for every preset of the nine-grid, base size, watermark size and
\* margin setting, the position _place_wm_item gives the watermark in the
\* preview is, within one pixel, the position calc_position resolves for the
\* export multiplied by the preview scale factor.
C19_PreviewMatchesExport == PresetPlacement => Within(1)

\* C19 for the four corners and the centre with the margin (10, 10), within
\* two pixels: the displayed sizes are truncated on both sides of the difference
C19_PreviewMatchesExportFivePresets ==
    (/\ PresetPlacement
     /\ preview.position_preset \in PlacedPresets
     /\ preview.margin = <<10, 10>>) => Within(2)

\* top_center at full scale: the preview shows the centre, the export the top
C19_Witness ==
    /\ PresetPlacement
    /\ preview.position_preset = "top_center"
    /\ preview.scale_factor = PreviewDen
    /\ preview.margin = <<10, 10>>
    /\ preview.export_pos[2] = 10
    /\ preview.item_pos[2] > whole(10) + PlaceDen

-----------------------------------------------------------------------------
(* Properties of the text opacity in the preview and in the export *)

\* both paths rendered the same settings at the same size (scale factor 1.0)
BothRendered ==
    /\ text_view.export_canvas # None
    /\ text_view.preview_canvas # None
    /\ text_view.scale_factor = PreviewDen

\* the alpha values of the two canvases differ by at most 1 at every pixel
AlphasAgree ==
    /\ text_view.export_canvas.size = text_view.preview_canvas.size
    /\ \A p \in Coords(text_view.export_canvas.size) :
           abs_diff(text_view.export_canvas.px[p][4], text_view.preview_canvas.px[p][4]) <= 1

\* C20: for the same text settings and the same opacity in [0, 1] the canvas
\* of the export path (fill alpha int(255 * o)) and the canvas of the preview
\* path (rendered, then the whole alpha scaled by o) have alpha values that
\* differ by at most 1 at every pixel, stroke and shadow pixels included.
C20_TextOpacityAgrees == BothRendered => AlphasAgree

\* C20 for an opaque fill colour without stroke and without shadow
C20_TextOpacityAgreesFillOnly ==
    (/\ BothRendered
     /\ text_view.settings.color_rgba[4] = 255
     /\ text_view.settings.stroke_width = 0
     /\ text_view.settings.shadow_rgba = None) => AlphasAgree

\* the default stroke at half opacity: opaque in the export, half in the preview
C20_Witness ==
    /\ BothRendered
    /\ text_view.opacity = OpDen \div 2
    /\ text_view.settings.stroke_width = 2
    /\ text_view.export_canvas.size = text_view.preview_canvas.size
    /\ \E p \in Coords(text_view.export_canvas.size) :
           /\ text_view.export_canvas.px[p][4] = 255
           /\ text_view.preview_canvas.px[p][4] = (255 * (OpDen \div 2)) \div OpDen

-----------------------------------------------------------------------------
(* Properties of the manual offset in the main window *)

\* the last drag was recorded by a mouse release and no preset was chosen since
DragRecorded == user.drag # None /\ user.drag.recorded

\* the manual offset is the dragged preview position over the scale factor
\* in effect at the drag
HoldsDragOverFactor ==
    /\ gui.manual_pos_px # None
    /\ gui.manual_pos_px = <<div_scale_factor(user.drag.pos[1], user.drag.scale_factor),
                              div_scale_factor(user.drag.pos[2], user.drag.scale_factor)>>

\* batch_export hands the manual offset on as it is, without a scale factor
ExportedUnscaled ==
    gui.exported # None => gui.exported.preview_scale_factor = None

\* C21: a manual offset is converted from preview space to original-image
\* space exactly once: after any sequence of drags, refreshes, font-style
\* changes and image switches manual_pos_px holds the dragged preview position
\* divided by the preview scale factor in effect at the drag, and batch_export
\* passes it to the engine without a scale factor.
C21_ConvertedOnce == (DragRecorded => HoldsDragOverFactor) /\ ExportedUnscaled

\* C21 as long as no font-style change found another scale factor than the
\* one the item was placed with
C21_ConvertedOnceSameFactor ==
    (DragRecorded /\ ~user.rescaled => HoldsDragOverFactor) /\ ExportedUnscaled

\* a drag recorded at one scale factor, a font-style change at another, and
\* the offset is the dragged position over the second
C21_Witness ==
    /\ DragRecorded
    /\ gui.item_pos = user.drag.pos
    /\ gui.preview_scale_factor # user.drag.scale_factor
    /\ gui.manual_pos_px = <<div_scale_factor(user.drag.pos[1], gui.preview_scale_factor),
                              div_scale_factor(user.drag.pos[2], gui.preview_scale_factor)>>

\* C27: the manual offset is set only by dragging: manual_pos_px is None
\* initially and after set_preset, and over every sequence of GUI events it
\* becomes non-None only when the user has dragged the watermark; so after a
\* preset is chosen and no drag follows, the next batch export positions the
\* watermark by that preset.
C27_ManualOnlyByDrag ==
    /\ gui.manual_pos_px # None => user.dragged
    /\ (gui.exported # None /\ ~user.dragged) =>
           /\ gui.exported.manual_pos_px = None
           /\ gui.exported.position_preset = gui.position_preset

\* what holds in place of C27: an offset set without a drag is the place
\* the preview gave the item, over the scale factor
C27_ManualOnlyByDragOrRelease ==
    (gui.manual_pos_px # None /\ ~user.dragged /\ gui.item_pos # None) =>
        gui.manual_pos_px = <<div_scale_factor(gui.item_pos[1], gui.preview_scale_factor),
                              div_scale_factor(gui.item_pos[2], gui.preview_scale_factor)>>

\* a preset chosen, no drag, a mouse release on the window, and the export is
\* given a manual offset and no preset
C27_Witness ==
    /\ ~user.dragged
    /\ gui.exported # None
    /\ gui.exported.manual_pos_px # None
    /\ gui.exported.position_preset = NoneKey
    /\ gui.position_preset = "top_left"

-----------------------------------------------------------------------------
(* Properties of the text renderer *)

TextReturned == text_call.pc = "returned"

\* a shadow colour is given and the shadow offset is not (0, 0)
ShadowRequested == text_call.shadow_rgba # None /\ text_call.shadow_offset # <<0, 0>>

\* the last run drawn, and the runs before it
MainRun == text_call.draws[Len(text_call.draws)]

\* the colour a run is stroked with, None when the run has no stroke
StrokeOf(draw) == IF draw.stroke_width > 0 THEN draw.stroke_fill ELSE None

\* the order of the runs: the main run last, at the text position; with a
\* shadow requested exactly one run before it, the shadow at the offset
DrawOrder ==
    /\ Len(text_call.draws) = (IF ShadowRequested THEN 2 ELSE 1)
    /\ MainRun.run = "main"
    /\ MainRun.at = text_call.layout.at
    /\ MainRun.fill = text_call.color_rgba
    /\ ShadowRequested =>
          /\ text_call.draws[1].run = "shadow"
          /\ text_call.draws[1].fill = text_call.shadow_rgba
          /\ text_call.draws[1].at = <<text_call.layout.at[1] + text_call.shadow_offset[1],
                                       text_call.layout.at[2] + text_call.shadow_offset[2]>>

\* C23 as stated: with a shadow requested the shadow run is drawn at the
\* offset before the main run, the main run is drawn last; the shadow run is
\* stroked with the stroke colour if stroke_width > 0 and the main run is
\* stroked with the stroke colour if stroke_width > 0.
C23_DrawOrder ==
    TextReturned =>
        /\ DrawOrder
        /\ text_call.layout.stroke_width > 0 =>
              /\ StrokeOf(MainRun) = text_call.stroke_rgba
              /\ MainRun.stroke_width = text_call.layout.stroke_width
              /\ ShadowRequested => StrokeOf(text_call.draws[1]) = text_call.stroke_rgba

\* C23 as the code has it: the order as stated; the runs are stroked with the
\* stroke colour when stroke_width > 0 and a stroke colour is given; with
\* stroke_width > 0 and no stroke colour the shadow run is stroked with the
\* shadow colour and the main run is not stroked; with stroke_width 0 no run
\* is stroked.
C23_DrawOrderAsCoded ==
    TextReturned =>
        /\ DrawOrder
        /\ (text_call.layout.stroke_width > 0 /\ text_call.stroke_rgba # None) =>
              /\ StrokeOf(MainRun) = text_call.stroke_rgba
              /\ MainRun.stroke_width = text_call.layout.stroke_width
              /\ ShadowRequested =>
                    /\ StrokeOf(text_call.draws[1]) = text_call.stroke_rgba
                    /\ text_call.draws[1].stroke_width = text_call.layout.stroke_width
        /\ (text_call.layout.stroke_width > 0 /\ text_call.stroke_rgba = None) =>
              /\ StrokeOf(MainRun) = None
              /\ ShadowRequested =>
                    /\ StrokeOf(text_call.draws[1]) = text_call.shadow_rgba
                    /\ text_call.draws[1].stroke_width = text_call.layout.stroke_width
        /\ text_call.layout.stroke_width = 0 =>
              \A i \in DOMAIN text_call.draws : StrokeOf(text_call.draws[i]) = None

\* a shadow and a stroke of width 2 in black: two runs, both stroked black
C23_Witness ==
    /\ TextReturned
    /\ ShadowRequested
    /\ text_call.layout.stroke_width = 2
    /\ text_call.stroke_rgba = <<0, 0, 0, 255>>
    /\ Len(text_call.draws) = 2
    /\ text_call.draws[1].run = "shadow"
    /\ text_call.draws[1].stroke_fill = <<0, 0, 0, 255>>
    /\ text_call.draws[2].run = "main"
    /\ text_call.draws[2].stroke_fill = <<0, 0, 0, 255>>

\* the box lies inside the canvas of the given size
InsideCanvas(box, size) ==
    /\ box[1] >= 0
    /\ box[2] >= 0
    /\ box[3] <= size[1]
    /\ box[4] <= size[2]

\* neither canvas side was cut down to its maximum
NotCut ==
    /\ text_call.layout.text_w + 2 * text_call.layout.pad <= 2000
    /\ text_call.layout.text_h + 2 * text_call.layout.pad <= 1000

AllRunsInside ==
    \A i \in DOMAIN text_call.draws :
        InsideCanvas(ink_box(text_call.layout, text_call.draws[i]), text_call.layout.size)

\* C24: the padding prevents clipping: for every measured bounding box, stroke
\* width in 0..20 and shadow offset, when the canvas is not cut by the maximum
\* clamp, the main run with its stroke and the shadow run at its offset lie
\* entirely inside the canvas.
C24_NoClipping ==
    (TextReturned /\ text_call.measure # None /\ NotCut) => AllRunsInside

\* C24 for measured boxes that start within 5 pixels of the drawing origin
\* (left and top of the glyphs, before the stroke, from 0 to 5)
C24_NoClippingSmallBearing ==
    (/\ TextReturned
     /\ text_call.measure # None
     /\ NotCut
     /\ text_call.measure[1] + text_call.layout.stroke_width \in 0 .. 5
     /\ text_call.measure[2] + text_call.layout.stroke_width \in 0 .. 5) => AllRunsInside

\* a large font whose glyphs start 40 pixels under the drawing origin: the
\* canvas is 170 high and the run reaches down to 200
C24_Witness ==
    /\ TextReturned
    /\ text_call.measure = <<1, 40, 300, 190>>
    /\ text_call.shadow_rgba = None
    /\ text_call.layout.size[2] = 170
    /\ ink_box(text_call.layout, MainRun)[4] = 200

\* C25: every canvas returned by compose_text_watermark has width in
\* [50, 2000] and height in [20, 1000], for every text, measured size, font
\* size, stroke width and shadow offset, the fallback size estimate included.
C25_CanvasBounds ==
    TextReturned =>
        /\ text_call.layout.size[1] \in 50 .. 2000
        /\ text_call.layout.size[2] \in 20 .. 1000

\* a measured text of 2500 x 1150 is given the largest canvas, a measuring
\* failure at font size 8 the fallback estimate within the smallest width
C25_Witness ==
    /\ TextReturned
    /\ \/ /\ text_call.measure # None
          /\ text_call.layout.text_w >= 2500
          /\ text_call.layout.size = <<2000, 1000>>
       \/ /\ text_call.measure = None
          /\ text_call.layout.font_size = 8
          /\ text_call.layout.size[1] = 50

\* the text is empty or consists of spaces (a missing text is the empty one)
BlankText == is_blank(text_call.text)

\* C26: empty or whitespace-only text (also a missing text) is replaced with
\* the placeholder before measuring and drawing: the renderer never draws
\* empty content and never produces a zero-size canvas.
C26_PlaceholderForBlank ==
    TextReturned =>
        /\ BlankText => text_call.layout.text = Sample
        /\ ~BlankText => text_call.layout.text = text_call.text
        /\ \A i \in DOMAIN text_call.draws :
              /\ text_call.draws[i].text = text_call.layout.text
              /\ ~is_blank(text_call.draws[i].text)
        /\ Len(text_call.draws) >= 1
        /\ text_call.layout.size[1] > 0
        /\ text_call.layout.size[2] > 0
        /\ (BlankText /\ text_call.measure = None) =>
              text_call.layout.text_w = (Len(Sample) * text_call.layout.font_size) \div 2

\* a text of two spaces is drawn as the placeholder
C26_Witness ==
    /\ TextReturned
    /\ text_call.text = <<" ", " ">>
    /\ MainRun.text = Sample
    /\ text_call.layout.size[1] >= 50

-----------------------------------------------------------------------------
(* Properties of compute_position of the command-line tool *)

\* the preset key a position name of the command line is matched to
preset_of(position) ==
    CASE position = "top-left" -> "top_left"
      [] position = "top-center" -> "top_center"
      [] position = "top-right" -> "top_right"
      [] position = "center-left" -> "center_left"
      [] position = "center" -> "center"
      [] position = "center-right" -> "center_right"
      [] position = "bottom-left" -> "bottom_left"
      [] position = "bottom-center" -> "bottom_center"
      [] position = "bottom-right" -> "bottom_right"
      [] OTHER -> position

\* calc_position(image_size, text_size, preset, None, (m, m)) of the call
EnginePosition ==
    calc_position(cli.image_size, cli.text_size, preset_of(lower(cli.position)), None,
                  <<cli.margin, cli.margin>>)

\* the position is one of the nine or a name neither function knows
NineOrUnknown == lower(cli.position) \in CliChoices \cup {"nowhere"}

\* C30: for each of the nine positions, every image size, text size and
\* margin m, compute_position returns the same (x, y) as calc_position with
\* the matched preset, no manual offset and the margin (m, m), and an unknown
\* position name resolves to the same default in both.
C30_SameAsEngine ==
    (cli.pc = "done" /\ NineOrUnknown) => cli.ret = EnginePosition

\* C30 as the two functions are: for the nine positions compute_position
\* returns the (x, y) of calc_position with every negative coordinate raised
\* to 0, hence the same (x, y) when neither is negative; an unknown name is
\* the bottom-right corner for compute_position and the centre for calc_position
C30_SameAsEngineFromZero ==
    cli.pc = "done" =>
        /\ lower(cli.position) \in CliChoices =>
              /\ cli.ret = <<max(0, EnginePosition[1]), max(0, EnginePosition[2])>>
              /\ (EnginePosition[1] >= 0 /\ EnginePosition[2] >= 0) => cli.ret = EnginePosition
        /\ lower(cli.position) = "nowhere" =>
              /\ cli.ret = compute_position(cli.image_size, cli.text_size, "bottom-right",
                                            cli.margin)
              /\ EnginePosition = calc_position(cli.image_size, cli.text_size, "center", None,
                                                <<cli.margin, cli.margin>>)

\* a text wider than the image at the bottom right: x is 0 where the engine has -2
C30_Witness ==
    /\ cli.pc = "done"
    /\ cli.position = "bottom-right"
    /\ cli.image_size = <<2, 3>>
    /\ cli.text_size = <<3, 1>>
    /\ cli.margin = 1
    /\ cli.ret = <<0, 1>>
    /\ EnginePosition = <<0 - 2, 1>>

-----------------------------------------------------------------------------
(* Properties of the image list *)

\* the list widget has a row for every entry of self.images, in its order
RowsAreImages ==
    /\ Len(lst.rows) = Len(lst.images)
    /\ \A i \in DOMAIN lst.rows : lst.rows[i] = lst.images[i]

\* the preview shows the file named in the row the user selected
PreviewsSelectedRow ==
    lst.clicked >= 0 => lst.base_img = lst.rows[lst.clicked + 1]

\* C28: the image list and the list widget stay aligned: after any sequence
\* of imports and template loads, including paths whose image fails to load,
\* the list widget has as many rows as self.images has entries and row i
\* shows the file self.images[i], so selecting row i previews the image named
\* in that row.
C28_ListAligned == RowsAreImages /\ PreviewsSelectedRow

\* what holds in place of C28: the rows are the entries of self.images that
\* load, in their order, and the list and the widget are aligned, with the
\* selected row previewed, as long as every entry of self.images is an image
\* that loads
C28_ListAlignedWhenAllLoad ==
    /\ lst.rows = SelectSeq(lst.images, LAMBDA p : path_kind(p) = "image")
    /\ (\A i \in DOMAIN lst.images : path_kind(lst.images[i]) = "image")
          => (RowsAreImages /\ PreviewsSelectedRow)

\* bad.jpg imported before a.jpg and b.png: the row of b.png previews a.jpg
C28_Witness ==
    /\ lst.images = <<"bad.jpg", "a.jpg", "b.png">>
    /\ lst.rows = <<"a.jpg", "b.png">>
    /\ lst.clicked = 1
    /\ lst.base_img = "a.jpg"

====
